---- MODULE Spec2Model ----
(***************************************************************************)
(* Zone rasterization and grid environment of the UAV navigation suite.    *)
(*                                                                         *)
(* Numbers.  Planar coordinates, the cell size and the rolloff distance    *)
(* are integers; cell sizes are even so that a cell centre                 *)
(* minX + (col + 0.5) * cellSizeM is an integer as well.  Cost multipliers *)
(* are exact: a rational is <<n, d>> in lowest terms (d > 0), and the      *)
(* number n/d + c1 * sqrt(k1) + ... + cm * sqrt(km), which the square      *)
(* roots of the rolloff pass produce, is <<n, d, terms>> with terms the    *)
(* sequence of the <<cn, cd, k>>, c = cn/cd # 0 in lowest terms, k > 1     *)
(* squarefree and increasing.  Every number has one such form, so equal    *)
(* numbers are equal values.  The Float32 rounding of the typed arrays is  *)
(* not modelled, and the doubles of the code are these real numbers: a     *)
(* value of the model is the value of the code up to its rounding.  Where  *)
(* the rounding can decide a test of the code (a distance that equals the  *)
(* rolloff distance), the outcome is a choice kept with the parameters in  *)
(* their field roundedBelow.  A step distance is a number                  *)
(* rat + root2 * sqrt(2), kept as its two coefficients.                    *)
(***************************************************************************)
EXTENDS Integers, Sequences, FiniteSets, TLC

(***************************************************************************)
(* Bounds of the model.                                                    *)
(***************************************************************************)
MaxZones == 2
EnvMaxZones == 1
MaxSpan == 8
SqrtScale == 100
MaxPathSteps == 13
GeomMaxZones == 2
OverhangMaxZones == 2
MaxDrawn == 2
MaxFetches == 2
MaxLoads == 1
MaxCostTypes == 4

(***************************************************************************)
(* Constants of the App.                                                   *)
(***************************************************************************)
MAX_CELLS == 250000
DEFAULT_RESOLUTION_M == 10
DEFAULT_ROLLOFF_DISTANCE_M == 50
DEFAULT_NO_FLY_BUFFER_M == 10
DEFAULT_DRAW_MULTIPLIER == 3
DEFAULT_ROLLOFF_STRENGTH == 1

(***************************************************************************)
(* Rational arithmetic.                                                    *)
(***************************************************************************)
Abs(a) == IF a < 0 THEN -a ELSE a

RECURSIVE GCD(_, _)
GCD(a, b) == IF b = 0 THEN a ELSE GCD(b, a % b)

Rat(n, d) ==
  LET g == GCD(Abs(n), Abs(d))
      s == IF d < 0 THEN -1 ELSE 1
  IN  <<(s * n) \div g, (s * d) \div g>>

RInt(k) == <<k, 1>>
ROne == RInt(1)
RZero == RInt(0)

\* the four operations and the order of rationals
QMul(p, q) == Rat(p[1] * q[1], p[2] * q[2])
QAdd(p, q) == Rat(p[1] * q[2] + q[1] * p[2], p[2] * q[2])
QSub(p, q) == Rat(p[1] * q[2] - q[1] * p[2], p[2] * q[2])
QLess(p, q) == p[1] * q[2] < q[1] * p[2]
QLeq(p, q) == p[1] * q[2] <= q[1] * p[2]

\* floor(sqrt(v)) for 0 <= v < 2^31, by bisection of lo..hi
RECURSIVE SqrtBetween(_, _, _)
SqrtBetween(v, lo, hi) ==
  IF lo >= hi THEN lo
  ELSE LET mid == (lo + hi + 1) \div 2
       IN  IF mid * mid <= v THEN SqrtBetween(v, mid, hi) ELSE SqrtBetween(v, lo, mid - 1)

ISqrt(v) == SqrtBetween(v, 0, IF v < 46340 THEN v ELSE 46340)

IsSquare(v) == ISqrt(v) * ISqrt(v) = v

\* the rational part and the square-root terms of a number
IsRational(x) == Len(x) = 2
RatPart(x) == <<x[1], x[2]>>
Terms(x) == IF Len(x) = 2 THEN <<>> ELSE x[3]
Real(q, ts) == IF ts = <<>> THEN q ELSE <<q[1], q[2], ts>>
Coeff(t) == <<t[1], t[2]>>

RECURSIVE AddTerms(_, _)
AddTerms(s, t) ==
  IF s = <<>> THEN t
  ELSE IF t = <<>> THEN s
  ELSE IF s[1][3] < t[1][3] THEN <<s[1]>> \o AddTerms(Tail(s), t)
  ELSE IF t[1][3] < s[1][3] THEN <<t[1]>> \o AddTerms(s, Tail(t))
  ELSE LET c == QAdd(Coeff(s[1]), Coeff(t[1]))
       IN  (IF c[1] = 0 THEN <<>> ELSE << <<c[1], c[2], s[1][3]>> >>)
             \o AddTerms(Tail(s), Tail(t))

RECURSIVE ScaleTerms(_, _)
ScaleTerms(ts, q) ==
  IF ts = <<>> \/ q[1] = 0 THEN <<>>
  ELSE LET c == QMul(Coeff(ts[1]), q)
       IN  << <<c[1], c[2], ts[1][3]>> >> \o ScaleTerms(Tail(ts), q)

\* c1 * sqrt(k1) times c2 * sqrt(k2), k1 and k2 squarefree
TermProduct(s, t) ==
  LET g == GCD(s[3], t[3])
      k == (s[3] \div g) * (t[3] \div g)
      c == QMul(QMul(Coeff(s), Coeff(t)), RInt(g))
  IN  IF k = 1 THEN c ELSE <<0, 1, << <<c[1], c[2], k>> >> >>

RAdd(p, q) ==
  IF IsRational(p) /\ IsRational(q) THEN QAdd(p, q)
  ELSE Real(QAdd(RatPart(p), RatPart(q)), AddTerms(Terms(p), Terms(q)))

RNeg(p) == Real(Rat(-p[1], p[2]), ScaleTerms(Terms(p), RInt(-1)))

RSub(p, q) == IF IsRational(p) /\ IsRational(q) THEN QSub(p, q) ELSE RAdd(p, RNeg(q))

\* the sum of the products of the terms s[i], i >= n, with the terms of t
RECURSIVE TermsProduct(_, _, _, _)
TermsProduct(s, t, i, j) ==
  IF i > Len(s) THEN RZero
  ELSE IF j > Len(t) THEN TermsProduct(s, t, i + 1, 1)
  ELSE RAdd(TermProduct(s[i], t[j]), TermsProduct(s, t, i, j + 1))

RMul(p, q) ==
  IF IsRational(p) /\ IsRational(q) THEN QMul(p, q)
  ELSE RAdd(Real(QMul(RatPart(p), RatPart(q)),
                 AddTerms(ScaleTerms(Terms(p), RatPart(q)), ScaleTerms(Terms(q), RatPart(p)))),
            TermsProduct(Terms(p), Terms(q), 1, 1))

RDivInt(p, k) ==
  IF IsRational(p) THEN Rat(p[1], p[2] * k)
  ELSE Real(Rat(p[1], p[2] * k), ScaleTerms(Terms(p), Rat(1, k)))

\* bounds of c * sqrt(k) between multiples of 1/scale
TermLow(t, scale) ==
  LET root == ISqrt(t[3] * scale * scale)
  IN  QMul(Coeff(t), Rat(IF t[1] > 0 THEN root ELSE root + 1, scale))
TermHigh(t, scale) ==
  LET root == ISqrt(t[3] * scale * scale)
  IN  QMul(Coeff(t), Rat(IF t[1] > 0 THEN root + 1 ELSE root, scale))

RECURSIVE SumLow(_, _)
SumLow(ts, scale) ==
  IF ts = <<>> THEN RZero ELSE QAdd(TermLow(ts[1], scale), SumLow(Tail(ts), scale))
RECURSIVE SumHigh(_, _)
SumHigh(ts, scale) ==
  IF ts = <<>> THEN RZero ELSE QAdd(TermHigh(ts[1], scale), SumHigh(Tail(ts), scale))

\* the sign of a number with several terms, when its bounds at this scale
\* tell it, and 0 when they do not
SignAt(x, scale) ==
  IF QAdd(RatPart(x), SumLow(Terms(x), scale))[1] >= 0 THEN 1
  ELSE IF QAdd(RatPart(x), SumHigh(Terms(x), scale))[1] <= 0 THEN -1
  ELSE 0

\* the sign of a number: exact for a rational and for r + c * sqrt(k), by
\* comparing r^2 with c^2 * k; for more terms by bounds of growing precision
\* (a number with a term is not rational, so it is not 0)
Sign(x) ==
  IF IsRational(x) THEN (IF x[1] > 0 THEN 1 ELSE IF x[1] < 0 THEN -1 ELSE 0)
  ELSE IF Len(x[3]) = 1
  THEN LET c == x[3][1]
           sc == IF c[1] > 0 THEN 1 ELSE -1
           sr == IF x[1] > 0 THEN 1 ELSE IF x[1] < 0 THEN -1 ELSE 0
       IN  IF sr = 0 \/ sr = sc THEN sc
           ELSE IF QLess(QMul(QMul(Coeff(c), Coeff(c)), RInt(c[3])),
                         QMul(RatPart(x), RatPart(x)))
                THEN sr ELSE sc
  ELSE IF SignAt(x, SqrtScale) # 0 THEN SignAt(x, SqrtScale)
  ELSE IF SignAt(x, 10 * SqrtScale) # 0 THEN SignAt(x, 10 * SqrtScale)
  ELSE CHOOSE sign \in {-1, 1} : SignAt(x, 100 * SqrtScale) = sign

RLess(p, q) == IF IsRational(p) /\ IsRational(q) THEN QLess(p, q) ELSE Sign(RSub(q, p)) > 0
RLeq(p, q) == IF IsRational(p) /\ IsRational(q) THEN QLeq(p, q) ELSE Sign(RSub(q, p)) >= 0

\* the largest s with s * s a divisor of v > 0, by division: the factors
\* below f are taken out of v
RECURSIVE SquareDivisor(_, _)
SquareDivisor(v, f) ==
  IF f * f > v THEN 1
  ELSE IF v % (f * f) = 0 THEN f * SquareDivisor(v \div (f * f), f)
  ELSE IF v % f = 0 THEN SquareDivisor(v \div f, f + 1)
  ELSE SquareDivisor(v, f + 1)

\* Math.sqrt of a rational q >= 0: sqrt(n/d) = s * sqrt(k) / d with n * d = s * s * k
RSqrt(q) ==
  LET v == q[1] * q[2]
      s == SquareDivisor(v, 2)
      k == v \div (s * s)
      c == Rat(s, q[2])
  IN  IF v = 0 THEN RZero ELSE IF k = 1 THEN c ELSE <<0, 1, << <<c[1], c[2], k>> >> >>

\* a rational that a double holds exactly while its numerator and its
\* denominator are small: the denominator is a power of two
RECURSIVE IsPowerOfTwo(_)
IsPowerOfTwo(n) == n = 1 \/ (n > 1 /\ n % 2 = 0 /\ IsPowerOfTwo(n \div 2))
IsBinary(q) == IsPowerOfTwo(q[2])

\* Math.floor(a / b) and Math.ceil(a / b) for b > 0
FloorDiv(a, b) == a \div b
CeilDiv(a, b) == -((-a) \div b)

Max(a, b) == IF a > b THEN a ELSE b

(***************************************************************************)
(* Polygon geometry (geo/polygon.ts).  A ring is a sequence of points      *)
(* <<x, y>>, a polygon a sequence of rings <<outer, hole, ...>>, the       *)
(* geometry of a zone a sequence of polygons.                              *)
(***************************************************************************)
AllPoints(polys) ==
  UNION {UNION {{polys[p][r][i] : i \in DOMAIN polys[p][r]} : r \in DOMAIN polys[p]} :
           p \in DOMAIN polys}

SetMin(S) == CHOOSE m \in S : \A v \in S : m <= v
SetMax(S) == CHOOSE m \in S : \A v \in S : m >= v

\* mercatorBbox: min/max over every point of every ring.  Without any point
\* the code returns minX = minY = Infinity and maxX = maxY = -Infinity,
\* which is the bbox with empty = TRUE here.
mercatorBbox(polys) ==
  LET P == AllPoints(polys)
  IN  IF P = {}
      THEN [empty |-> TRUE, minX |-> 0, minY |-> 0, maxX |-> 0, maxY |-> 0]
      ELSE [empty |-> FALSE,
            minX |-> SetMin({q[1] : q \in P}), minY |-> SetMin({q[2] : q \in P}),
            maxX |-> SetMax({q[1] : q \in P}), maxY |-> SetMax({q[2] : q \in P})]

\* One iteration of the ray casting loop: does the edge from ring[j] to
\* ring[i] cross the ray?  The second conjunct is evaluated only when
\* yi # yj, so the `|| 1e-12` of the code never replaces the denominator
\* there and the comparison x < (xj-xi)*(y-yi)/(yj-yi) + xi is decided
\* by cross multiplication.
EdgeIntersects(x, y, ring, i) ==
  LET j == IF i = 1 THEN Len(ring) ELSE i - 1
      xi == ring[i][1]
      yi == ring[i][2]
      xj == ring[j][1]
      yj == ring[j][2]
  IN  /\ (yi > y) # (yj > y)
      /\ IF yj - yi > 0
         THEN (x - xi) * (yj - yi) < (xj - xi) * (y - yi)
         ELSE (x - xi) * (yj - yi) > (xj - xi) * (y - yi)

pointInRing(x, y, ring) ==
  Cardinality({i \in 1..Len(ring) : EdgeIntersects(x, y, ring, i)}) % 2 = 1

pointInRings(x, y, rings) ==
  /\ Len(rings) # 0
  /\ pointInRing(x, y, rings[1])
  /\ \A h \in 2..Len(rings) : ~pointInRing(x, y, rings[h])

pointInAnyPolygon(x, y, polys) ==
  \E p \in 1..Len(polys) : pointInRings(x, y, polys[p])

(***************************************************************************)
(* Inputs of one rasterization.                                            *)
(***************************************************************************)
Pt(x, y) == <<x, y>>
Rect(x0, y0, x1, y1) == <<Pt(x0, y0), Pt(x1, y0), Pt(x1, y1), Pt(x0, y1)>>

SquarePolys == << <<Rect(0, 0, 7, 7)>> >>
DonutPolys == << <<Rect(0, 0, 8, 8), Rect(2, 2, 6, 6)>> >>
TrianglePolys == << << <<Pt(0, 0), Pt(8, 0), Pt(0, 8)>> >> >>
BigPolys == << <<Rect(0, 0, 8, 8)>> >>
StripPolys == << <<Rect(4, 0, 6, 8)>> >>
TwoPartPolys == << <<Rect(0, 4, 2, 8)>>, <<Rect(6, 0, 8, 2)>> >>
OutsidePolys == << <<Rect(20, 20, 24, 24)>> >>
EmptyPolys == << >>

\* compiled entries of rasterizeZonesToGrid: the zone with the planar
\* polygons of its buffered shape (NO_FLY) or of its shape (COST)
NoFly(polys) == [type |-> "NO_FLY", costTypeId |-> "", polys |-> polys]
Cost(typeId, polys) == [type |-> "COST", costTypeId |-> typeId, polys |-> polys]

ZoneCatalog ==
  { NoFly(SquarePolys), NoFly(DonutPolys), NoFly(OutsidePolys),
    Cost("x3", TrianglePolys), Cost("x2", BigPolys), Cost("half", StripPolys),
    Cost("x3", TwoPartPolys), Cost("deleted", BigPolys), Cost("x2", EmptyPolys) }

\* the cost-zone-type table: id -> multiplier (the App keeps multipliers
\* within [0.1, 50]); "deleted" is the id of a type that is not in the table
CostZoneTypes ==
  [id \in {"x3", "x2", "half"} |->
     CASE id = "x3" -> RInt(3) [] id = "x2" -> RInt(2) [] id = "half" -> Rat(1, 2)]

CellSizes == {2, 4}
Spans == {MaxSpan - 3, MaxSpan}
Bounds(x0, y0, sx, sy) == [minX |-> x0, minY |-> y0, maxX |-> x0 + sx, maxY |-> y0 + sy]
BoundsSet ==
  {Bounds(0, 0, sx, MaxSpan) : sx \in Spans} \cup {Bounds(-2, 2, MaxSpan, MaxSpan)}

\* <<avoidHighMultiplier, rolloffDistanceM>>
RolloffConfigs == {<<FALSE, 3>>, <<TRUE, 0>>, <<TRUE, 3>>}

ZoneLists == UNION {[1..n -> ZoneCatalog] : n \in 0..MaxZones}

ParamsSet ==
  {[cellSizeM |-> c, bounds |-> b, zones |-> zs, costZoneTypes |-> CostZoneTypes,
    avoidHighMultiplier |-> r[1], rolloffDistanceM |-> r[2], roundedBelow |-> {}] :
     c \in CellSizes, b \in BoundsSet, zs \in ZoneLists, r \in RolloffConfigs}

(***************************************************************************)
(* rasterizeZonesToGrid (env/rasterize.ts), pass by pass.                  *)
(***************************************************************************)
\* Width with Math.floor in place of Math.ceil
Width_Floor(p) == Max(1, FloorDiv(p.bounds.maxX - p.bounds.minX, p.cellSizeM))

Width(p) == Max(1, CeilDiv(p.bounds.maxX - p.bounds.minX, p.cellSizeM))
Height(p) == Max(1, CeilDiv(p.bounds.maxY - p.bounds.minY, p.cellSizeM))
CellCount(p) == Width(p) * Height(p)
Ids(p) == 0..(CellCount(p) - 1)

clampInt(v, min, max) == IF v < min THEN min ELSE IF v > max THEN max ELSE v

\* cell centre: bounds.minX + (col + 0.5) * cellSizeM, cellSizeM even
CenterX(p, col) == p.bounds.minX + col * p.cellSizeM + p.cellSizeM \div 2
CenterY(p, row) == p.bounds.minY + row * p.cellSizeM + p.cellSizeM \div 2

ColOf(p, id) == id % Width(p)
RowOf(p, id) == id \div Width(p)

\* ScanRange with an exclusive upper end (the last column and row of the
\* bbox are not scanned)
ScanRange_ExclusiveEnd(p, bbox, pad) ==
  IF bbox.empty
  THEN [minCol |-> Width(p) - 1, maxCol |-> 0, minRow |-> Height(p) - 1, maxRow |-> 0]
  ELSE [minCol |-> clampInt(FloorDiv(bbox.minX - pad - p.bounds.minX, p.cellSizeM), 0, Width(p) - 1),
        maxCol |-> clampInt(FloorDiv(bbox.maxX + pad - p.bounds.minX, p.cellSizeM) - 1, 0, Width(p) - 1),
        minRow |-> clampInt(FloorDiv(bbox.minY - pad - p.bounds.minY, p.cellSizeM), 0, Height(p) - 1),
        maxRow |-> clampInt(FloorDiv(bbox.maxY + pad - p.bounds.minY, p.cellSizeM) - 1, 0, Height(p) - 1)]

\* ScanRange whose lower ends are rounded up (Math.ceil), so that the
\* column and row the bbox starts in are not scanned
ScanRange_CeilMin(p, bbox, pad) ==
  IF bbox.empty
  THEN [minCol |-> Width(p) - 1, maxCol |-> 0, minRow |-> Height(p) - 1, maxRow |-> 0]
  ELSE [minCol |-> clampInt(CeilDiv(bbox.minX - pad - p.bounds.minX, p.cellSizeM), 0, Width(p) - 1),
        maxCol |-> clampInt(FloorDiv(bbox.maxX + pad - p.bounds.minX, p.cellSizeM), 0, Width(p) - 1),
        minRow |-> clampInt(CeilDiv(bbox.minY - pad - p.bounds.minY, p.cellSizeM), 0, Height(p) - 1),
        maxRow |-> clampInt(FloorDiv(bbox.maxY + pad - p.bounds.minY, p.cellSizeM), 0, Height(p) - 1)]

\* The clamped index range scanned for a bbox grown by pad on every side.
\* For the bbox without points, floor(Infinity) clamps to the upper end
\* and floor(-Infinity) to the lower end.
ScanRange(p, bbox, pad) ==
  IF bbox.empty
  THEN [minCol |-> Width(p) - 1, maxCol |-> 0, minRow |-> Height(p) - 1, maxRow |-> 0]
  ELSE [minCol |-> clampInt(FloorDiv(bbox.minX - pad - p.bounds.minX, p.cellSizeM), 0, Width(p) - 1),
        maxCol |-> clampInt(FloorDiv(bbox.maxX + pad - p.bounds.minX, p.cellSizeM), 0, Width(p) - 1),
        minRow |-> clampInt(FloorDiv(bbox.minY - pad - p.bounds.minY, p.cellSizeM), 0, Height(p) - 1),
        maxRow |-> clampInt(FloorDiv(bbox.maxY + pad - p.bounds.minY, p.cellSizeM), 0, Height(p) - 1)]

InScan(p, rg, id) ==
  LET row == RowOf(p, id)
      col == ColOf(p, id)
  IN  /\ row >= rg.minRow /\ row <= rg.maxRow
      /\ col >= rg.minCol /\ col <= rg.maxCol

CenterInside(p, id, polys) ==
  pointInAnyPolygon(CenterX(p, ColOf(p, id)), CenterY(p, RowOf(p, id)), polys)

\* costTypeById.get(z.costTypeId)?.multiplier ?? 1
ZoneMultiplier(p, z) ==
  IF z.costTypeId \in DOMAIN p.costZoneTypes THEN p.costZoneTypes[z.costTypeId] ELSE ROne

\* arrays after construction: blocked all 0, costMultiplier all 1, mask all 0
InitArrays(p) ==
  [blocked |-> [id \in Ids(p) |-> 0],
   costMultiplier |-> [id \in Ids(p) |-> ROne],
   costZoneMask |-> [id \in Ids(p) |-> 0]]

\* ExactHits where a cell already covered by a COST zone is skipped as well
ExactHits_FirstCostWins(p, st, z) ==
  LET rg == ScanRange(p, mercatorBbox(z.polys), 0)
  IN  {id \in Ids(p) : /\ InScan(p, rg, id)
                       /\ st.blocked[id] # 1
                       /\ st.costZoneMask[id] # 1
                       /\ CenterInside(p, id, z.polys)}

\* ExactHits without the containment test: the whole scanned bbox is hit
ExactHits_BboxOnly(p, st, z) ==
  LET rg == ScanRange(p, mercatorBbox(z.polys), 0)
  IN  {id \in Ids(p) : InScan(p, rg, id) /\ st.blocked[id] # 1}

\* the cells of the scan of zone z for which pointInAnyPolygon is called
ExactTested(p, st, z) ==
  LET rg == ScanRange(p, mercatorBbox(z.polys), 0)
  IN  {id \in Ids(p) : InScan(p, rg, id) /\ st.blocked[id] # 1}

\* ExactHits without the `continue` on blocked cells
ExactHits_BlockedScanned(p, st, z) ==
  LET rg == ScanRange(p, mercatorBbox(z.polys), 0)
  IN  {id \in Ids(p) : InScan(p, rg, id) /\ CenterInside(p, id, z.polys)}

\* the cells the scan of zone z reaches past both `continue`s
ExactHits(p, st, z) ==
  LET rg == ScanRange(p, mercatorBbox(z.polys), 0)
  IN  {id \in Ids(p) : /\ InScan(p, rg, id)
                       /\ st.blocked[id] # 1
                       /\ CenterInside(p, id, z.polys)}

\* ExactZone where a COST zone assigns its multiplier instead of multiplying
ExactZone_Assign(p, st, z) ==
  LET hits == ExactHits(p, st, z)
  IN  IF z.type = "NO_FLY"
      THEN [st EXCEPT !.blocked = [id \in Ids(p) |-> IF id \in hits THEN 1 ELSE st.blocked[id]]]
      ELSE [st EXCEPT
              !.costMultiplier =
                 [id \in Ids(p) |-> IF id \in hits THEN ZoneMultiplier(p, z) ELSE st.costMultiplier[id]],
              !.costZoneMask = [id \in Ids(p) |-> IF id \in hits THEN 1 ELSE st.costZoneMask[id]]]

\* ExactZone where a NO_FLY zone writes blocked for every scanned cell,
\* 1 inside and 0 outside, without skipping blocked cells
ExactZone_Overwrite(p, st, z) ==
  LET hits == ExactHits(p, st, z)
      rg == ScanRange(p, mercatorBbox(z.polys), 0)
  IN  IF z.type = "NO_FLY"
      THEN [st EXCEPT !.blocked =
              [id \in Ids(p) |->
                 IF InScan(p, rg, id)
                 THEN (IF CenterInside(p, id, z.polys) THEN 1 ELSE 0)
                 ELSE st.blocked[id]]]
      ELSE [st EXCEPT
              !.costMultiplier =
                 [id \in Ids(p) |->
                    IF id \in hits
                    THEN RMul(st.costMultiplier[id], ZoneMultiplier(p, z))
                    ELSE st.costMultiplier[id]],
              !.costZoneMask = [id \in Ids(p) |-> IF id \in hits THEN 1 ELSE st.costZoneMask[id]]]

\* one iteration of the zone loop of the exact pass; every cell of the
\* scan reads and writes its own entries only
ExactZone(p, st, z) ==
  LET hits == ExactHits(p, st, z)
  IN  IF z.type = "NO_FLY"
      THEN [st EXCEPT !.blocked = [id \in Ids(p) |-> IF id \in hits THEN 1 ELSE st.blocked[id]]]
      ELSE [st EXCEPT
              !.costMultiplier =
                 [id \in Ids(p) |->
                    IF id \in hits
                    THEN RMul(st.costMultiplier[id], ZoneMultiplier(p, z))
                    ELSE st.costMultiplier[id]],
              !.costZoneMask = [id \in Ids(p) |-> IF id \in hits THEN 1 ELSE st.costZoneMask[id]]]

RECURSIVE ExactPass(_, _, _, _)
ExactPass(p, st, zs, i) ==
  IF i > Len(zs) THEN st ELSE ExactPass(p, ExactZone(p, st, zs[i]), zs, i + 1)

(***************************************************************************)
(* Rolloff pass.  Distances are compared through their squares, which are  *)
(* exact rationals; <<1, 0>> stands for Infinity.                          *)
(***************************************************************************)
Infinity == <<1, 0>>
NaN == <<0, 0>>
IsFinite(q) == q[2] # 0

\* pointToSegmentDistance, squared
pointToSegmentDistance2(px, py, ax, ay, bx, by) ==
  LET abx == bx - ax
      aby == by - ay
      apx == px - ax
      apy == py - ay
      denom == abx * abx + aby * aby
      dot == apx * abx + apy * aby
  IN  IF denom <= 0 THEN RInt(apx * apx + apy * apy)
      ELSE IF dot <= 0 THEN RInt(apx * apx + apy * apy)              \* t = 0
      ELSE IF dot >= denom THEN RInt((px - bx) * (px - bx) + (py - by) * (py - by))  \* t = 1
      ELSE Rat((apx * apx + apy * apy) * denom - dot * dot, denom)

\* t of pointToSegmentDistance after Math.max(0, Math.min(1, ...))
SegmentT(px, py, ax, ay, bx, by) ==
  LET abx == bx - ax
      aby == by - ay
      denom == abx * abx + aby * aby
      dot == (px - ax) * abx + (py - ay) * aby
  IN  IF denom <= 0 \/ dot <= 0 THEN RZero ELSE IF dot >= denom THEN ROne ELSE Rat(dot, denom)

\* <<px - cx, py - cy>>, the arguments of Math.hypot
SegmentOffset(px, py, ax, ay, bx, by) ==
  LET t == SegmentT(px, py, ax, ay, bx, by)
  IN  <<QSub(RInt(px - ax), QMul(t, RInt(bx - ax))), QSub(RInt(py - ay), QMul(t, RInt(by - ay)))>>

\* The doubles of pointToSegmentDistance yield a distance that is a whole
\* number without rounding it.  Inside a segment along an axis the offset
\* across the segment is a difference of integers, and the offset along it,
\* left by the rounding of t, is too small to count in the sum of
\* Math.hypot.  Otherwise t has to be a double (0, 1 or a binary fraction),
\* which makes the offsets exact, and Math.hypot has to be exact on them:
\* one of them is 0, or the quotient of the smaller by the larger is a
\* binary fraction, so that its square, the sum and the root are exact.
DistanceIsExact(px, py, ax, ay, bx, by) ==
  LET t == SegmentT(px, py, ax, ay, bx, by)
      o == SegmentOffset(px, py, ax, ay, bx, by)
      ox == Rat(Abs(o[1][1]), o[1][2])
      oy == Rat(Abs(o[2][1]), o[2][2])
  IN  \/ t[1] # 0 /\ t # ROne /\ (ax = bx \/ ay = by)
      \/ /\ IsBinary(t)
         /\ \/ ox[1] = 0
            \/ oy[1] = 0
            \/ IsBinary(IF QLess(ox, oy) THEN Rat(ox[1] * oy[2], ox[2] * oy[1])
                                        ELSE Rat(oy[1] * ox[2], oy[2] * ox[1]))

RMinOf(S) == IF S = {} THEN Infinity ELSE CHOOSE m \in S : \A v \in S : RLeq(m, v)

\* minDistanceToRing without the test ring.length < 2
minDistanceToRing2_NoLengthCheck(x, y, ring) ==
  RMinOf({pointToSegmentDistance2(x, y, ring[i][1], ring[i][2],
                                  ring[(i % Len(ring)) + 1][1], ring[(i % Len(ring)) + 1][2]) :
            i \in 1..Len(ring)})

minDistanceToRing2(x, y, ring) ==
  IF Len(ring) < 2 THEN Infinity
  ELSE RMinOf({pointToSegmentDistance2(x, y, ring[i][1], ring[i][2],
                                       ring[(i % Len(ring)) + 1][1], ring[(i % Len(ring)) + 1][2]) :
                 i \in 1..Len(ring)})

minDistanceToRings2(x, y, polys) ==
  RMinOf(UNION {{minDistanceToRing2(x, y, polys[p][r]) : r \in DOMAIN polys[p]} :
                  p \in DOMAIN polys})

\* the segments minDistanceToRings measures: <<ax, ay, bx, by>>
RingSegments(ring) ==
  IF Len(ring) < 2 THEN {}
  ELSE {<<ring[i][1], ring[i][2], ring[(i % Len(ring)) + 1][1], ring[(i % Len(ring)) + 1][2]>> :
          i \in 1..Len(ring)}

Segments(polys) ==
  UNION {UNION {RingSegments(polys[p][r]) : r \in DOMAIN polys[p]} : p \in DOMAIN polys}

\* The distance of (x, y) from polys is r, and the double that
\* minDistanceToRings returns may differ from r: a nearest segment whose
\* doubles are rounded.  A double below r passes the test distance > r,
\* and where the factor then exceeds 1 by the rounding the cell is
\* accumulated; r itself or a double above r is not.
DistanceRounded(x, y, polys, r) ==
  /\ r > 0
  /\ minDistanceToRings2(x, y, polys) = RInt(r * r)
  /\ \E s \in Segments(polys) :
       /\ pointToSegmentDistance2(x, y, s[1], s[2], s[3], s[4]) = RInt(r * r)
       /\ ~DistanceIsExact(x, y, s[1], s[2], s[3], s[4])

\* clamp01(distance / rolloffDistanceM) for 0 <= distance <= rolloffDistanceM,
\* from the square of the distance: the square root of the quotient of
\* the squares
Normalized(d2, r) == RSqrt(Rat(d2[1], d2[2] * r * r))

\* factor = 1 + (multiplier - 1) * (1 - normalized)
RolloffFactor(multiplier, d2, r) ==
  RAdd(ROne, RMul(RSub(multiplier, ROne), RSub(ROne, Normalized(d2, r))))

CenterDistance2(p, id, polys) ==
  minDistanceToRings2(CenterX(p, ColOf(p, id)), CenterY(p, RowOf(p, id)), polys)

\* highCostZones: the COST entries whose multiplier exceeds 1
HighCostZones(p) ==
  SelectSeq(p.zones, LAMBDA z : z.type = "COST" /\ RLess(ROne, ZoneMultiplier(p, z)))

\* the cell centres of p whose distance from a zone of high cost may be rounded
InexactCases(p) ==
  {<<CenterX(p, ColOf(p, id)), CenterY(p, RowOf(p, id)), p.zones[i].polys,
     p.rolloffDistanceM, ZoneMultiplier(p, p.zones[i])>> :
     <<id, i>> \in {c \in Ids(p) \X DOMAIN p.zones :
                     /\ p.zones[c[2]].type = "COST"
                     /\ RLess(ROne, ZoneMultiplier(p, p.zones[c[2]]))
                     /\ DistanceRounded(CenterX(p, ColOf(p, c[1])), CenterY(p, RowOf(p, c[1])),
                                        p.zones[c[2]].polys, p.rolloffDistanceM)}}

\* The outcomes of the rounding, p.roundedBelow: the <<x, y, polys, r,
\* multiplier>> of the cell centres at distance r from polys whose factor
\* comes out above 1.  Math.hypot returns an implementation-approximated
\* value, so that either outcome is one the build can produce.  It is
\* chosen with the parameters and stays; it is empty where no cell centre
\* is at the rolloff distance from a slanted edge, as on the grids of the
\* App below.
Roundings(p) == {[p EXCEPT !.roundedBelow = rb] : rb \in SUBSET InexactCases(p)}

\* if (factor > 1), for the factor of the doubles; d2 is the square of the
\* distance of the centre of cell id from z
FactorAboveOne(p, id, z, d2) ==
  \/ RLess(ROne, RolloffFactor(ZoneMultiplier(p, z), d2, p.rolloffDistanceM))
  \/ <<CenterX(p, ColOf(p, id)), CenterY(p, RowOf(p, id)), z.polys,
       p.rolloffDistanceM, ZoneMultiplier(p, z)>> \in p.roundedBelow

\* RolloffHits that skips blocked cells only, not the cells of the mask
RolloffHits_MaskIgnored(p, st, z) ==
  LET rg == ScanRange(p, mercatorBbox(z.polys), p.rolloffDistanceM)
  IN  {id \in Ids(p) :
         /\ InScan(p, rg, id)
         /\ ~(st.blocked[id] = 1)
         /\ ~CenterInside(p, id, z.polys)
         /\ LET d2 == CenterDistance2(p, id, z.polys)
            IN  /\ IsFinite(d2)
                /\ ~RLess(RInt(p.rolloffDistanceM * p.rolloffDistanceM), d2)
                /\ FactorAboveOne(p, id, z, d2)}

\* the cells of the scan of zone z whose factor is accumulated
RolloffHits(p, st, z) ==
  LET rg == ScanRange(p, mercatorBbox(z.polys), p.rolloffDistanceM)
  IN  {id \in Ids(p) :
         /\ InScan(p, rg, id)
         /\ ~(st.blocked[id] = 1 \/ st.costZoneMask[id] = 1)
         /\ ~CenterInside(p, id, z.polys)
         /\ LET d2 == CenterDistance2(p, id, z.polys)
            IN  /\ IsFinite(d2)
                /\ ~RLess(RInt(p.rolloffDistanceM * p.rolloffDistanceM), d2)
                /\ FactorAboveOne(p, id, z, d2)}

InitRolloff(p) ==
  [rolloffSum |-> [id \in Ids(p) |-> RZero], rolloffCount |-> [id \in Ids(p) |-> 0]]

\* one iteration of the loop over highCostZones
RolloffZone(p, st, acc, z) ==
  LET hits == RolloffHits(p, st, z)
  IN  [rolloffSum |->
         [id \in Ids(p) |->
            IF id \in hits
            THEN RAdd(acc.rolloffSum[id],
                      RolloffFactor(ZoneMultiplier(p, z), CenterDistance2(p, id, z.polys),
                                    p.rolloffDistanceM))
            ELSE acc.rolloffSum[id]],
       rolloffCount |->
         [id \in Ids(p) |-> IF id \in hits THEN acc.rolloffCount[id] + 1 ELSE acc.rolloffCount[id]]]

RECURSIVE RolloffPass(_, _, _, _, _)
RolloffPass(p, st, acc, zs, i) ==
  IF i > Len(zs) THEN acc ELSE RolloffPass(p, st, RolloffZone(p, st, acc, zs[i]), zs, i + 1)

\* RolloffApply that multiplies by the sum of the factors, not their average
RolloffApply_Sum(p, st, acc) ==
  [st EXCEPT !.costMultiplier =
     [id \in Ids(p) |->
        IF acc.rolloffCount[id] = 0 \/ st.blocked[id] = 1 THEN st.costMultiplier[id]
        ELSE LET avgFactor == acc.rolloffSum[id]
             IN  IF RLess(ROne, avgFactor)
                 THEN RMul(st.costMultiplier[id], avgFactor)
                 ELSE st.costMultiplier[id]]]

\* the final loop over all cells: multiply by the average factor
RolloffApply(p, st, acc) ==
  [st EXCEPT !.costMultiplier =
     [id \in Ids(p) |->
        IF acc.rolloffCount[id] = 0 \/ st.blocked[id] = 1 THEN st.costMultiplier[id]
        ELSE LET avgFactor == RDivInt(acc.rolloffSum[id], acc.rolloffCount[id])
             IN  IF RLess(ROne, avgFactor)
                 THEN RMul(st.costMultiplier[id], avgFactor)
                 ELSE st.costMultiplier[id]]]

\* the condition of the rolloff pass without the flag
RolloffEnabled_FlagIgnored(p) == p.rolloffDistanceM > 0

RolloffEnabled(p) == p.avoidHighMultiplier /\ p.rolloffDistanceM > 0

\* the arrays rasterizeZonesToGrid hands to the GridEnvironment
Rasterize(p) ==
  LET ex == ExactPass(p, InitArrays(p), p.zones, 1)
  IN  IF RolloffEnabled(p)
      THEN RolloffApply(p, ex, RolloffPass(p, ex, InitRolloff(p), HighCostZones(p), 1))
      ELSE ex

\* new GridEnvironment({cellSizeM, bounds, width, height, blocked, costMultiplier})
GridEnvironment(p, st) ==
  [cellSizeM |-> p.cellSizeM, bounds |-> p.bounds, width |-> Width(p), height |-> Height(p),
   blocked |-> st.blocked, costMultiplier |-> st.costMultiplier]

NoEnv ==
  [cellSizeM |-> 0, bounds |-> Bounds(0, 0, 0, 0), width |-> 0, height |-> 0,
   blocked |-> <<>>, costMultiplier |-> <<>>]

(***************************************************************************)
(* The rasterization as a state machine: one step per zone of each pass.   *)
(***************************************************************************)
VARIABLES params, pc, zi, blocked, costMultiplier, costZoneMask,
          rolloffSum, rolloffCount, env, call, app

vars == <<params, pc, zi, blocked, costMultiplier, costZoneMask,
          rolloffSum, rolloffCount, env, call, app>>

Done == pc = "done"

Arrays == [blocked |-> blocked, costMultiplier |-> costMultiplier, costZoneMask |-> costZoneMask]
Accum == [rolloffSum |-> rolloffSum, rolloffCount |-> rolloffCount]

NoCall == [op |-> "none"]

\* null is the empty sequence and a value v the sequence <<v>> where the
\* code has T | null
Null == <<>>
Some(v) == <<v>>

\* the raster memo without planning bounds
NoRaster == [env |-> NoEnv, cellCount |-> 0, error |-> "No planning bounds set."]

\* null of a JSON value (see the map state files below)
JNull == [t |-> "null"]

DEFAULT_COST_ZONE_TYPES ==
  << [id |-> "residential", name |-> "Residential", multiplier |-> Rat(3, 2), color |-> "#fd7e14"],
     [id |-> "heavy-traffic", name |-> "Heavy traffic", multiplier |-> Rat(5, 2), color |-> "#e64980"],
     [id |-> "open-space", name |-> "Open space", multiplier |-> Rat(7, 10), color |-> "#2f9e44"] >>

\* the App after mounting (geo/polygon.ts 887-927, the useState defaults):
\* the mount effect has called reloadAlgorithms, which waits for the list
InitialApp ==
  [session |-> "plan", resolutionM |-> DEFAULT_RESOLUTION_M, zones |-> <<>>,
   activeColorPickerId |-> Null, basemap |-> "osm",
   costZoneTypes |-> DEFAULT_COST_ZONE_TYPES, drawMode |-> [kind |-> "NO_FLY"],
   noFlyBufferM |-> DEFAULT_NO_FLY_BUFFER_M, avoidHighMultiplier |-> FALSE,
   rolloffStrength |-> RInt(DEFAULT_ROLLOFF_STRENGTH),
   rolloffDistanceM |-> RInt(DEFAULT_ROLLOFF_DISTANCE_M),
   start |-> JNull, goal |-> JNull, placementMode |-> "null",
   currentViewBounds |-> JNull, planningBounds |-> JNull,
   algorithms |-> <<>>, algorithmId |-> "", algoError |-> FALSE,
   showVisited |-> FALSE, showCostHeatmap |-> FALSE, isRunning |-> FALSE,
   runResult |-> Null, newCostTypeName |-> "", newCostTypeMultiplier |-> Rat(6, 5),
   planningIsView |-> FALSE, drawn |-> 0,
   fetches |-> <<"">>, loads |-> <<>>, inflight |-> Null, alert |-> "", loaded |-> Null]

Init ==
  /\ params \in UNION {Roundings(p) : p \in ParamsSet}
  /\ pc = "exact"
  /\ zi = 1
  /\ blocked = InitArrays(params).blocked
  /\ costMultiplier = InitArrays(params).costMultiplier
  /\ costZoneMask = InitArrays(params).costZoneMask
  /\ rolloffSum = InitRolloff(params).rolloffSum
  /\ rolloffCount = InitRolloff(params).rolloffCount
  /\ env = NoEnv
  /\ call = NoCall
  /\ app = InitialApp

\* for (const entry of compiled) { ... }
ExactStep ==
  /\ pc = "exact"
  /\ zi <= Len(params.zones)
  /\ LET st == ExactZone(params, Arrays, params.zones[zi])
     IN  /\ blocked' = st.blocked
         /\ costMultiplier' = st.costMultiplier
         /\ costZoneMask' = st.costZoneMask
  /\ zi' = zi + 1
  /\ UNCHANGED <<params, pc, rolloffSum, rolloffCount, env, call, app>>

\* if (avoidHighMultiplier && rolloffDistanceM > 0): taken
EnterRolloff ==
  /\ pc = "exact"
  /\ zi > Len(params.zones)
  /\ RolloffEnabled(params)
  /\ pc' = "rolloff"
  /\ zi' = 1
  /\ UNCHANGED <<params, blocked, costMultiplier, costZoneMask, rolloffSum, rolloffCount, env, call, app>>

\* if (avoidHighMultiplier && rolloffDistanceM > 0): not taken
SkipRolloff ==
  /\ pc = "exact"
  /\ zi > Len(params.zones)
  /\ ~RolloffEnabled(params)
  /\ pc' = "construct"
  /\ UNCHANGED <<params, zi, blocked, costMultiplier, costZoneMask, rolloffSum, rolloffCount, env, call, app>>

\* for (const entry of highCostZones) { ... }
RolloffStep ==
  /\ pc = "rolloff"
  /\ zi <= Len(HighCostZones(params))
  /\ LET acc == RolloffZone(params, Arrays, Accum, HighCostZones(params)[zi])
     IN  /\ rolloffSum' = acc.rolloffSum
         /\ rolloffCount' = acc.rolloffCount
  /\ zi' = zi + 1
  /\ UNCHANGED <<params, pc, blocked, costMultiplier, costZoneMask, env, call, app>>

\* for (let id = 0; id < cellCount; id += 1) { ... }
RolloffApplyStep ==
  /\ pc = "rolloff"
  /\ zi > Len(HighCostZones(params))
  /\ costMultiplier' = RolloffApply(params, Arrays, Accum).costMultiplier
  /\ pc' = "construct"
  /\ UNCHANGED <<params, zi, blocked, costZoneMask, rolloffSum, rolloffCount, env, call, app>>

\* const env = new GridEnvironment(...); return { env, cellCount }
Construct ==
  /\ pc = "construct"
  /\ env' = GridEnvironment(params, Arrays)
  /\ pc' = "done"
  /\ UNCHANGED <<params, zi, blocked, costMultiplier, costZoneMask, rolloffSum, rolloffCount, call, app>>

Next ==
  \/ ExactStep
  \/ EnterRolloff
  \/ SkipRolloff
  \/ RolloffStep
  \/ RolloffApplyStep
  \/ Construct

Spec == Init /\ [][Next]_vars

\* the same behaviours, named for the properties of the scan window and of
\* the rolloff pass
SpecRolloff == Init /\ [][Next]_vars

(***************************************************************************)
(* rasterizeZonesToGrid on zones whose geometry has no edge: no polygon,   *)
(* a polygon without rings, an empty ring, a ring of one point.            *)
(***************************************************************************)
NoRingPolys == << << >> >>
EmptyRingPolys == << << << >> >> >>
OnePointPolys == << << <<Pt(3, 3)>> >> >>
EdgelessPolys == {EmptyPolys, NoRingPolys, EmptyRingPolys, OnePointPolys}

GeomZoneCatalog ==
  {NoFly(g) : g \in EdgelessPolys} \cup {Cost("x3", g) : g \in EdgelessPolys}
     \cup {NoFly(StripPolys), Cost("x3", TrianglePolys)}

GeomParams ==
  {[cellSizeM |-> 2, bounds |-> b, zones |-> zs, costZoneTypes |-> CostZoneTypes,
    avoidHighMultiplier |-> r[1], rolloffDistanceM |-> r[2], roundedBelow |-> {}] :
     b \in {Bounds(0, 0, 8, 8), Bounds(2, 2, 2, 2)},
     zs \in UNION {[1..n -> GeomZoneCatalog] : n \in 0..GeomMaxZones},
     r \in RolloffConfigs}

InitGeom ==
  /\ params \in UNION {Roundings(p) : p \in GeomParams}
  /\ pc = "exact"
  /\ zi = 1
  /\ blocked = InitArrays(params).blocked
  /\ costMultiplier = InitArrays(params).costMultiplier
  /\ costZoneMask = InitArrays(params).costZoneMask
  /\ rolloffSum = InitRolloff(params).rolloffSum
  /\ rolloffCount = InitRolloff(params).rolloffCount
  /\ env = NoEnv
  /\ call = NoCall
  /\ app = InitialApp

SpecGeom == InitGeom /\ [][Next]_vars

(***************************************************************************)
(* rasterizeZonesToGrid on planning rectangles whose width is not a        *)
(* multiple of the cell size, with zones beside the rectangle.             *)
(***************************************************************************)
EdgePolys == << <<Rect(6, 0, 8, 8)>> >>
NearPolys == << <<Rect(9, 0, 12, 8)>> >>

OverhangZoneCatalog ==
  { NoFly(EdgePolys), Cost("x3", EdgePolys), NoFly(OutsidePolys), Cost("x3", NearPolys),
    Cost("x2", BigPolys), NoFly(SquarePolys) }

OverhangParams ==
  {[cellSizeM |-> c, bounds |-> b, zones |-> zs, costZoneTypes |-> CostZoneTypes,
    avoidHighMultiplier |-> r[1], rolloffDistanceM |-> r[2], roundedBelow |-> {}] :
     c \in CellSizes,
     b \in {Bounds(0, 0, 5, 8), Bounds(0, 0, 8, 8)},
     zs \in UNION {[1..n -> OverhangZoneCatalog] : n \in 0..OverhangMaxZones},
     r \in RolloffConfigs}

InitOverhang ==
  /\ params \in UNION {Roundings(p) : p \in OverhangParams}
  /\ pc = "exact"
  /\ zi = 1
  /\ blocked = InitArrays(params).blocked
  /\ costMultiplier = InitArrays(params).costMultiplier
  /\ costZoneMask = InitArrays(params).costZoneMask
  /\ rolloffSum = InitRolloff(params).rolloffSum
  /\ rolloffCount = InitRolloff(params).rolloffCount
  /\ env = NoEnv
  /\ call = NoCall
  /\ app = InitialApp

SpecOverhang == InitOverhang /\ [][Next]_vars

(***************************************************************************)
(* rasterizeZonesToGrid on cell centres at the rolloff distance from a     *)
(* zone.  The centre (3, 1) is at distance 1 from the edge (0,0)-(12,9) of *)
(* the slope, where t = 45 / 225 is no double and the offsets 0.6 and 0.8  *)
(* are rounded; the centre (7, 1) is at distance 1 from the edge x = 6 of  *)
(* the wedge and the centre (5, 5) at distance 3 from the edge x = 2 of    *)
(* the two-part zone, where the doubles are exact.                         *)
(***************************************************************************)
RoundingMaxZones == 2

SlopePolys == << << <<Pt(0, 0), Pt(12, 9), Pt(0, 9)>> >> >>
WedgePolys == << << <<Pt(3, 0), Pt(6, 0), Pt(6, 3)>> >> >>

RoundingZoneCatalog ==
  { Cost("x3", SlopePolys), Cost("x3", WedgePolys), Cost("x3", TwoPartPolys),
    Cost("x3", TrianglePolys), NoFly(StripPolys) }

RoundingParams ==
  {[cellSizeM |-> 2, bounds |-> b, zones |-> zs, costZoneTypes |-> CostZoneTypes,
    avoidHighMultiplier |-> r[1], rolloffDistanceM |-> r[2], roundedBelow |-> {}] :
     b \in {Bounds(0, 0, 8, 4), Bounds(0, 0, 8, 8)},
     zs \in UNION {[1..n -> RoundingZoneCatalog] : n \in 0..RoundingMaxZones},
     r \in {<<TRUE, 1>>, <<TRUE, 3>>, <<FALSE, 3>>}}

InitRounding ==
  /\ params \in UNION {Roundings(p) : p \in RoundingParams}
  /\ pc = "exact"
  /\ zi = 1
  /\ blocked = InitArrays(params).blocked
  /\ costMultiplier = InitArrays(params).costMultiplier
  /\ costZoneMask = InitArrays(params).costZoneMask
  /\ rolloffSum = InitRolloff(params).rolloffSum
  /\ rolloffCount = InitRolloff(params).rolloffCount
  /\ env = NoEnv
  /\ call = NoCall
  /\ app = InitialApp

SpecRounding == InitRounding /\ [][Next]_vars


(***************************************************************************)
(* GridEnvironment (env/GridEnvironment.ts).                               *)
(***************************************************************************)
size(e) == e.width * e.height

cellId(e, col, row) == row * e.width + col

\* colRow with the row taken from the height (row = floor(id / height))
colRow_ByHeight(e, id) ==
  LET row == FloorDiv(id, e.height)
  IN  [col |-> id - row * e.width, row |-> row]

colRow(e, id) ==
  LET row == FloorDiv(id, e.width)
  IN  [col |-> id - row * e.width, row |-> row]

\* inBounds without the upper limit on the column
inBounds_NoColLimit(e, col, row) == col >= 0 /\ row >= 0 /\ row < e.height

inBounds(e, col, row) == col >= 0 /\ row >= 0 /\ col < e.width /\ row < e.height

\* worldToCell that passes (row, col) to cellId
worldToCell_Swapped(e, xM, yM) ==
  LET col == FloorDiv(xM - e.bounds.minX, e.cellSizeM)
      row == FloorDiv(yM - e.bounds.minY, e.cellSizeM)
  IN  IF ~inBounds(e, col, row) THEN Null ELSE Some(cellId(e, row, col))

worldToCell(e, xM, yM) ==
  LET col == FloorDiv(xM - e.bounds.minX, e.cellSizeM)
      row == FloorDiv(yM - e.bounds.minY, e.cellSizeM)
  IN  IF ~inBounds(e, col, row) THEN Null ELSE Some(cellId(e, col, row))

cellCenter(e, id) ==
  [xM |-> e.bounds.minX + colRow(e, id).col * e.cellSizeM + e.cellSizeM \div 2,
   yM |-> e.bounds.minY + colRow(e, id).row * e.cellSizeM + e.cellSizeM \div 2]

\* this.blocked[id] === 1; reading outside the array gives undefined
isBlocked(e, id) == id \in DOMAIN e.blocked /\ e.blocked[id] = 1

\* this.costMultiplier[id] || 1: the falsy values are undefined (a read
\* outside the array), 0 and NaN; every other stored value, +Infinity
\* included, is returned as it is
getCostMultiplier(e, id) ==
  IF id \notin DOMAIN e.costMultiplier THEN ROne
  ELSE IF e.costMultiplier[id] = RZero \/ e.costMultiplier[id] = NaN THEN ROne
  ELSE e.costMultiplier[id]

\* a distance rat + root2 * sqrt(2)
Dist(rat, root2) == [rat |-> rat, root2 |-> root2]
DistTimes(d, q) == [rat |-> RMul(d.rat, q), root2 |-> RMul(d.root2, q)]

\* stepCost that leaves the multiplier out
stepCost_Unweighted(e, toId, stepDistanceM) == DistTimes(stepDistanceM, ROne)

stepCost(e, toId, stepDistanceM) == DistTimes(stepDistanceM, getCostMultiplier(e, toId))

\* the factors 1 and Math.SQRT2 of the direction table
Straight == Dist(ROne, RZero)
Diagonal == Dist(RZero, ROne)

\* dirs whose diagonal entries have the factor 1
dirs_UnitDiagonal ==
  << <<1, 0, Straight>>, <<-1, 0, Straight>>, <<0, 1, Straight>>, <<0, -1, Straight>>,
     <<1, 1, Straight>>, <<1, -1, Straight>>, <<-1, 1, Straight>>, <<-1, -1, Straight>> >>

\* dirs whose last entry repeats the first diagonal
dirs_RepeatedDiagonal ==
  << <<1, 0, Straight>>, <<-1, 0, Straight>>, <<0, 1, Straight>>, <<0, -1, Straight>>,
     <<1, 1, Diagonal>>, <<1, -1, Diagonal>>, <<-1, 1, Diagonal>>, <<1, 1, Diagonal>> >>

dirs ==
  << <<1, 0, Straight>>, <<-1, 0, Straight>>, <<0, 1, Straight>>, <<0, -1, Straight>>,
     <<1, 1, Diagonal>>, <<1, -1, Diagonal>>, <<-1, 1, Diagonal>>, <<-1, -1, Diagonal>> >>

\* the loop of neighbors8 without the test of blocked cells
RECURSIVE neighborsFrom_BlockedKept(_, _, _)
neighborsFrom_BlockedKept(e, id, k) ==
  IF k > Len(dirs) THEN <<>>
  ELSE LET c == colRow(e, id).col + dirs[k][1]
           r == colRow(e, id).row + dirs[k][2]
           nid == cellId(e, c, r)
       IN  IF ~inBounds(e, c, r)
           THEN neighborsFrom_BlockedKept(e, id, k + 1)
           ELSE <<[id |-> nid, stepDistanceM |-> DistTimes(dirs[k][3], RInt(e.cellSizeM))]>>
                  \o neighborsFrom_BlockedKept(e, id, k + 1)

\* the loop of neighbors8 from direction k on
RECURSIVE neighborsFrom(_, _, _)
neighborsFrom(e, id, k) ==
  IF k > Len(dirs) THEN <<>>
  ELSE LET c == colRow(e, id).col + dirs[k][1]
           r == colRow(e, id).row + dirs[k][2]
           nid == cellId(e, c, r)
       IN  IF ~inBounds(e, c, r) \/ isBlocked(e, nid)
           THEN neighborsFrom(e, id, k + 1)
           ELSE <<[id |-> nid, stepDistanceM |-> DistTimes(dirs[k][3], RInt(e.cellSizeM))]>>
                  \o neighborsFrom(e, id, k + 1)

neighbors8(e, id) == neighborsFrom(e, id, 1)

(***************************************************************************)
(* Queries on a constructed GridEnvironment; call is the query in progress *)
(* with its arguments and its result.                                      *)
(***************************************************************************)
\* the state in which rasterizeZonesToGrid returns
Returned ==
  /\ pc = "done"
  /\ LET st == Rasterize(params)
         ex == ExactPass(params, InitArrays(params), params.zones, 1)
         acc == IF RolloffEnabled(params)
                THEN RolloffPass(params, ex, InitRolloff(params), HighCostZones(params), 1)
                ELSE InitRolloff(params)
     IN  /\ blocked = st.blocked
         /\ costMultiplier = st.costMultiplier
         /\ costZoneMask = st.costZoneMask
         /\ rolloffSum = acc.rolloffSum
         /\ rolloffCount = acc.rolloffCount
         /\ zi = (IF RolloffEnabled(params) THEN Len(HighCostZones(params)) ELSE Len(params.zones)) + 1
         /\ env = GridEnvironment(params, st)

InitEnv ==
  /\ params \in UNION {Roundings(p) : p \in {q \in ParamsSet : Len(q.zones) <= EnvMaxZones}}
  /\ Returned
  /\ call = NoCall
  /\ app = InitialApp

raster == <<params, pc, zi, blocked, costMultiplier, costZoneMask, rolloffSum, rolloffCount, env>>

\* sample points: one cell around the planning rectangle and the grid
WorldXs == (env.bounds.minX - 1)..(env.bounds.minX + env.width * env.cellSizeM + 1)
WorldYs == (env.bounds.minY - 1)..(env.bounds.minY + env.height * env.cellSizeM + 1)

CallCellId ==
  /\ Done
  /\ call = NoCall
  /\ \E col \in 0..(env.width - 1), row \in 0..(env.height - 1) :
       call' = [op |-> "cellId", col |-> col, row |-> row, result |-> cellId(env, col, row)]
  /\ UNCHANGED <<raster, app>>

CallColRow ==
  /\ Done
  /\ call = NoCall
  /\ \E id \in 0..(size(env) - 1) :
       call' = [op |-> "colRow", id |-> id, result |-> colRow(env, id)]
  /\ UNCHANGED <<raster, app>>

CallWorldToCell ==
  /\ Done
  /\ call = NoCall
  /\ \E xM \in WorldXs, yM \in WorldYs :
       call' = [op |-> "worldToCell", xM |-> xM, yM |-> yM, result |-> worldToCell(env, xM, yM)]
  /\ UNCHANGED <<raster, app>>

CallNeighbors8 ==
  /\ Done
  /\ call = NoCall
  /\ \E id \in 0..(size(env) - 1) :
       call' = [op |-> "neighbors8", id |-> id, result |-> neighbors8(env, id)]
  /\ UNCHANGED <<raster, app>>

\* for (nid, stepDistanceM) of neighbors8(id): stepCost(nid, stepDistanceM)
CallStepCost ==
  /\ Done
  /\ call.op = "neighbors8"
  /\ \E k \in 1..Len(call.result) :
       call' = [op |-> "stepCost", fromId |-> call.id, toId |-> call.result[k].id,
                stepDistanceM |-> call.result[k].stepDistanceM,
                result |-> stepCost(env, call.result[k].id, call.result[k].stepDistanceM)]
  /\ UNCHANGED <<raster, app>>

\* the query returns to its caller
Return ==
  /\ Done
  /\ call # NoCall
  /\ call' = NoCall
  /\ UNCHANGED <<raster, app>>

NextEnv ==
  \/ Return
  \/ CallCellId
  \/ CallColRow
  \/ CallWorldToCell
  \/ CallNeighbors8
  \/ CallStepCost

SpecEnv == InitEnv /\ [][NextEnv]_vars

(***************************************************************************)
(* getCostMultiplier over the values a Float32Array can store.  The        *)
(* constructor takes any array; the rasterizer itself stores +Infinity     *)
(* where enough zones of multiplier 50 overlap (50^23 exceeds the largest  *)
(* float32) and 0 where enough zones of multiplier 0.1 do.                 *)
(***************************************************************************)
StoredValues == {RZero, Rat(1, 2), ROne, RInt(3), Infinity, NaN}

\* grids of 1, 2 and 4 cells, no zones
StoredParams ==
  {[cellSizeM |-> 2, bounds |-> b, zones |-> <<>>, costZoneTypes |-> CostZoneTypes,
    avoidHighMultiplier |-> FALSE, rolloffDistanceM |-> 0, roundedBelow |-> {}] :
     b \in {Bounds(0, 0, 0, 0), Bounds(0, 0, 4, 2), Bounds(-2, 2, 4, 4)}}

InitStored ==
  /\ params \in StoredParams
  /\ pc = "done"
  /\ zi = 1
  /\ blocked = InitArrays(params).blocked
  /\ costMultiplier \in [Ids(params) -> StoredValues]
  /\ costZoneMask = InitArrays(params).costZoneMask
  /\ rolloffSum = InitRolloff(params).rolloffSum
  /\ rolloffCount = InitRolloff(params).rolloffCount
  /\ env = GridEnvironment(params, Arrays)
  /\ call = NoCall
  /\ app = InitialApp

\* ids of the grid and one on either side of it
CallGetCostMultiplier ==
  /\ Done
  /\ call = NoCall
  /\ \E id \in (-1)..size(env) :
       call' = [op |-> "getCostMultiplier", id |-> id, result |-> getCostMultiplier(env, id)]
  /\ UNCHANGED <<raster, app>>

NextStored ==
  \/ CallGetCostMultiplier
  \/ Return

SpecStored == InitStored /\ [][NextStored]_vars

\* the list without the entries at the indices in S, order kept
RECURSIVE Without(_, _, _)
Without(zs, S, i) ==
  IF i > Len(zs) THEN <<>>
  ELSE IF i \in S THEN Without(zs, S, i + 1)
  ELSE <<zs[i]>> \o Without(zs, S, i + 1)

\* the variables of the rasterization, which rest while the App is used
parked == <<params, pc, zi, blocked, costMultiplier, costZoneMask, rolloffSum, rolloffCount, env, call>>



(***************************************************************************)
(* Walks over the grid: a planner that starts at an open cell and moves    *)
(* along the entries neighbors8 returns.  The grids have the NO_FLY zone   *)
(* of the column scenario: 10 columns of 2 m, a polygon over column 5.     *)
(***************************************************************************)
\* column 5 is [10, 12) with centres at x = 11: the column exactly, a wider
\* strip, a strip that leans over the columns to the right, and a strip
\* that ends below the centre of the last row of a grid 20 m high
ColumnPolys ==
  { << <<Rect(10, 0, 12, 20)>> >>,
    << <<Rect(9, -2, 14, 22)>> >>,
    << << <<Pt(10, 0), Pt(12, 0), Pt(16, 20), Pt(10, 20)>> >> >>,
    << <<Rect(10, 0, 12, 18)>> >> }

WalkBounds == {Bounds(0, 0, 20, 20), Bounds(0, 0, 20, 6), Bounds(0, 0, 13, 4)}

WalkParams ==
  {[cellSizeM |-> 2, bounds |-> b, zones |-> <<NoFly(polys)>>, costZoneTypes |-> CostZoneTypes,
    avoidHighMultiplier |-> FALSE, rolloffDistanceM |-> 0, roundedBelow |-> {}] :
     b \in WalkBounds, polys \in ColumnPolys}

InitWalk ==
  /\ params \in WalkParams
  /\ Returned
  /\ call = NoCall
  /\ app = InitialApp

\* the planner is given a start cell that is not blocked
WalkBegin ==
  /\ Done
  /\ call = NoCall
  /\ \E id \in 0..(size(env) - 1) :
       /\ ~isBlocked(env, id)
       /\ call' = [op |-> "walk", fromId |-> id, id |-> id]
  /\ UNCHANGED <<raster, app>>

\* for (const nb of env.neighbors8(id)): move to nb.id
WalkStep ==
  /\ Done
  /\ call.op = "walk"
  /\ \E k \in 1..Len(neighbors8(env, call.id)) :
       call' = [call EXCEPT !.id = neighbors8(env, call.id)[k].id]
  /\ UNCHANGED <<raster, app>>

NextWalk ==
  \/ WalkBegin
  \/ WalkStep

SpecWalk == InitWalk /\ [][NextWalk]_vars

(***************************************************************************)
(* Paths over the open 10 x 10 grid of 10 m cells: a planner leaves cell 0 *)
(* and adds up stepCost along neighbors8.  A path of MaxPathSteps steps    *)
(* costs at least MaxPathSteps * 10 m, which is more than 90 * sqrt(2) m.  *)
(***************************************************************************)
OpenGridParams ==
  [cellSizeM |-> 10, bounds |-> Bounds(0, 0, 100, 100), zones |-> <<>>,
   costZoneTypes |-> CostZoneTypes, avoidHighMultiplier |-> FALSE, rolloffDistanceM |-> 0,
   roundedBelow |-> {}]

DistPlus(d1, d2) == [rat |-> RAdd(d1.rat, d2.rat), root2 |-> RAdd(d1.root2, d2.root2)]

InitPath ==
  /\ params = OpenGridParams
  /\ Returned
  /\ call = NoCall
  /\ app = InitialApp

PathBegin ==
  /\ Done
  /\ call = NoCall
  /\ call' = [op |-> "path", id |-> 0, steps |-> 0, cost |-> Dist(RZero, RZero)]
  /\ UNCHANGED <<raster, app>>

\* for (const nb of env.neighbors8(id)): g + env.stepCost(nb.id, nb.stepDistanceM)
PathStep ==
  /\ Done
  /\ call.op = "path"
  /\ call.steps < MaxPathSteps
  /\ \E k \in 1..Len(neighbors8(env, call.id)) :
       LET nb == neighbors8(env, call.id)[k]
       IN  call' = [call EXCEPT !.id = nb.id, !.steps = call.steps + 1,
                                !.cost = DistPlus(call.cost, stepCost(env, nb.id, nb.stepDistanceM))]
  /\ UNCHANGED <<raster, app>>

NextPath ==
  \/ PathBegin
  \/ PathStep

SpecPath == InitPath /\ [][NextPath]_vars

(***************************************************************************)
(* Helpers of the properties.                                              *)
(***************************************************************************)
WithZones(p, zs) == [p EXCEPT !.zones = zs]

\* every reordering of a zone list
Reorderings(zs) ==
  {[i \in 1..Len(zs) |-> zs[f[i]]] : f \in Permutations(1..Len(zs))}

(***************************************************************************)
(* Drawing zones (App.tsx with components/DrawControls.tsx).  The effect   *)
(* of DrawControls registers onCreated, onEdited and onDeleted on the map; *)
(* they call the props of the render in which the effect ran, and the      *)
(* effect runs again only when mode.zoneType or mode.multiplier changes.   *)
(* `registered` holds the state of the App those props were made with.     *)
(* The state of this part of the App is held in app.                       *)
(***************************************************************************)
BufferValues == {5, DEFAULT_NO_FLY_BUFFER_M, 20}
\* parseFloat(e.target.value) of the multiplier inputs: NaN for an empty input
DrawMultipliers == {RInt(DEFAULT_DRAW_MULTIPLIER), RInt(100), NaN}
DrawShapes == {Rect(0, 0, 4, 4), Rect(2, 2, 6, 8)}

\* turf.buffer(shape, d, { units: 'meters' }) on a rectangle, by the box
\* grown by d on every side
buffer(shape, d) ==
  Rect(shape[1][1] - d, shape[1][2] - d, shape[3][1] + d, shape[3][2] + d)

\* clamp(v, min, max) of App.tsx 521-526 (geo/polygon.ts 1706-1711)
clamp(v, min, max) ==
  IF ~IsFinite(v) THEN min
  ELSE IF QLess(v, min) THEN min
  ELSE IF QLess(max, v) THEN max
  ELSE v

Closure(a) ==
  [noFlyBufferM |-> a.noFlyBufferM, drawZoneType |-> a.drawZoneType,
   drawMultiplier |-> a.drawMultiplier]

InitialDraw ==
  [noFlyBufferM |-> DEFAULT_NO_FLY_BUFFER_M, drawZoneType |-> "NO_FLY",
   drawMultiplier |-> RInt(DEFAULT_DRAW_MULTIPLIER), zones |-> <<>>, nextId |-> 1,
   registered |-> [noFlyBufferM |-> DEFAULT_NO_FLY_BUFFER_M, drawZoneType |-> "NO_FLY",
                   drawMultiplier |-> RInt(DEFAULT_DRAW_MULTIPLIER)]]

CountOfType(zs, t) == Cardinality({i \in DOMAIN zs : zs[i].type = t})

\* onZoneCreated of the render with state c, applied to the zones prev
ZoneCreatedBy(c, prev, zoneId, shape) ==
  IF c.drawZoneType = "NO_FLY"
  THEN Append(prev, [id |-> zoneId, name |-> <<"No-fly", CountOfType(prev, "NO_FLY") + 1>>,
                     type |-> "NO_FLY", shape |-> shape,
                     buffered |-> buffer(shape, c.noFlyBufferM)])
  ELSE Append(prev, [id |-> zoneId, name |-> <<"Cost zone", CountOfType(prev, "COST") + 1>>,
                     type |-> "COST", multiplier |-> clamp(c.drawMultiplier, Rat(1, 10), RInt(50)),
                     shape |-> shape])

\* onZoneEdited of the render with state c
ZoneEditedBy(c, prev, zoneId, shape) ==
  [i \in DOMAIN prev |->
     IF prev[i].id # zoneId THEN prev[i]
     ELSE IF prev[i].type = "NO_FLY"
          THEN [prev[i] EXCEPT !.shape = shape, !.buffered = buffer(shape, c.noFlyBufferM)]
          ELSE [prev[i] EXCEPT !.shape = shape]]

\* the effect on [noFlyBufferM]: every NO_FLY zone is buffered again
Rebuffered(zs, d) ==
  [i \in DOMAIN zs |->
     IF zs[i].type # "NO_FLY" THEN zs[i] ELSE [zs[i] EXCEPT !.buffered = buffer(zs[i].shape, d)]]

InitDraw ==
  /\ params = [cellSizeM |-> DEFAULT_RESOLUTION_M, bounds |-> Bounds(0, 0, 0, 0), zones |-> <<>>,
               costZoneTypes |-> CostZoneTypes, avoidHighMultiplier |-> FALSE,
               rolloffDistanceM |-> DEFAULT_ROLLOFF_DISTANCE_M, roundedBelow |-> {}]
  /\ pc = "idle"
  /\ zi = 1
  /\ blocked = <<>> /\ costMultiplier = <<>> /\ costZoneMask = <<>>
  /\ rolloffSum = <<>> /\ rolloffCount = <<>>
  /\ env = NoEnv
  /\ call = NoCall
  /\ app = InitialDraw

\* the no-fly buffer slider, shown while the drawing mode is NO_FLY
SetNoFlyBufferM ==
  /\ pc = "idle"
  /\ app.drawZoneType = "NO_FLY"
  /\ \E d \in BufferValues \ {app.noFlyBufferM} :
       app' = [app EXCEPT !.noFlyBufferM = d, !.zones = Rebuffered(app.zones, d)]
  /\ UNCHANGED parked

\* the drawing mode select; mode.zoneType changes and the effect of
\* DrawControls registers the handlers of this render
SetDrawZoneType ==
  /\ pc = "idle"
  /\ \E t \in {"NO_FLY", "COST"} \ {app.drawZoneType} :
       LET a == [app EXCEPT !.drawZoneType = t]
       IN  app' = [a EXCEPT !.registered = Closure(a)]
  /\ UNCHANGED parked

\* the multiplier input, shown while the drawing mode is COST
SetDrawMultiplier ==
  /\ pc = "idle"
  /\ app.drawZoneType = "COST"
  /\ \E m \in DrawMultipliers \ {app.drawMultiplier} :
       LET a == [app EXCEPT !.drawMultiplier = m]
       IN  app' = [a EXCEPT !.registered = Closure(a)]
  /\ UNCHANGED parked

\* the multiplier input of a cost zone in "Adjust cost zones" (App.tsx
\* 388-398)
SetZoneMultiplier ==
  /\ pc = "idle"
  /\ \E i \in DOMAIN app.zones : \E v \in DrawMultipliers :
       /\ app.zones[i].type = "COST"
       /\ app' = [app EXCEPT !.zones =
                    [k \in DOMAIN app.zones |->
                       IF app.zones[k].id = app.zones[i].id /\ app.zones[k].type = "COST"
                       THEN [app.zones[k] EXCEPT !.multiplier = clamp(v, Rat(1, 10), RInt(50))]
                       ELSE app.zones[k]]]
  /\ UNCHANGED parked

\* L.Draw.Event.CREATED
DrawCreated ==
  /\ pc = "idle"
  /\ app.nextId <= MaxDrawn
  /\ \E shape \in DrawShapes :
       app' = [app EXCEPT !.zones = ZoneCreatedBy(app.registered, app.zones, app.nextId, shape),
                          !.nextId = app.nextId + 1]
  /\ UNCHANGED parked

\* L.Draw.Event.EDITED, one layer
DrawEdited ==
  /\ pc = "idle"
  /\ \E i \in DOMAIN app.zones : \E shape \in DrawShapes \ {app.zones[i].shape} :
       app' = [app EXCEPT !.zones = ZoneEditedBy(app.registered, app.zones, app.zones[i].id, shape)]
  /\ UNCHANGED parked

\* L.Draw.Event.DELETED, one layer
DrawDeleted ==
  /\ pc = "idle"
  /\ \E i \in DOMAIN app.zones :
       app' = [app EXCEPT !.zones = SelectSeq(app.zones, LAMBDA z : z.id # app.zones[i].id)]
  /\ UNCHANGED parked

NextDraw ==
  \/ SetNoFlyBufferM
  \/ SetDrawZoneType
  \/ SetDrawMultiplier
  \/ SetZoneMultiplier
  \/ DrawCreated
  \/ DrawEdited
  \/ DrawDeleted

SpecDraw == InitDraw /\ [][NextDraw]_vars

(***************************************************************************)
(* Loading the algorithm list (App.tsx, api/client).  reloadAlgorithms is  *)
(* called once by the mount effect and by the Reload button; after its     *)
(* await it continues with the algorithmId of the render it was called in. *)
(* app.fetches holds that algorithmId for every call that is waiting.      *)
(***************************************************************************)
BackendLists ==
  {<<>>, <<"astar">>, <<"dijkstra">>, <<"astar", "dijkstra">>, <<"bfs", "astar", "dijkstra">>}

IdsOf(list) == {list[i] : i \in DOMAIN list}

RemoveFetch(fs, k) == [j \in 1..(Len(fs) - 1) |-> IF j < k THEN fs[j] ELSE fs[j + 1]]

\* the mount effect has called reloadAlgorithms
InitialAlgos ==
  [algorithms |-> <<>>, algorithmId |-> "", algoError |-> FALSE, fetches |-> <<"">>]

InitAlgos ==
  /\ params = [cellSizeM |-> DEFAULT_RESOLUTION_M, bounds |-> Bounds(0, 0, 0, 0), zones |-> <<>>,
               costZoneTypes |-> CostZoneTypes, avoidHighMultiplier |-> FALSE,
               rolloffDistanceM |-> DEFAULT_ROLLOFF_DISTANCE_M, roundedBelow |-> {}]
  /\ pc = "idle"
  /\ zi = 1
  /\ blocked = <<>> /\ costMultiplier = <<>> /\ costZoneMask = <<>>
  /\ rolloffSum = <<>> /\ rolloffCount = <<>>
  /\ env = NoEnv
  /\ call = NoCall
  /\ app = InitialAlgos

\* reloadAlgorithms up to `await fetchAlgorithms()` (the Reload button)
reloadAlgorithms ==
  /\ pc = "idle"
  /\ Len(app.fetches) < MaxFetches
  /\ app' = [app EXCEPT !.algoError = FALSE, !.fetches = Append(@, app.algorithmId)]
  /\ UNCHANGED parked

\* fetchAlgorithms resolves with the list of the backend
FetchResolved ==
  /\ pc = "idle"
  /\ \E k \in DOMAIN app.fetches : \E list \in BackendLists :
       app' = [app EXCEPT
                 !.algorithms = list,
                 !.algorithmId =
                    IF Len(list) = 0 THEN ""
                    ELSE IF app.fetches[k] \notin IdsOf(list) THEN list[1]
                    ELSE @,
                 !.fetches = RemoveFetch(@, k)]
  /\ UNCHANGED parked

\* fetchAlgorithms rejects: the catch branch
FetchRejected ==
  /\ pc = "idle"
  /\ \E k \in DOMAIN app.fetches :
       app' = [app EXCEPT !.algoError = TRUE, !.algorithms = <<>>, !.algorithmId = "",
                          !.fetches = RemoveFetch(@, k)]
  /\ UNCHANGED parked

\* the algorithm select: one of its options is chosen
SelectAlgorithm ==
  /\ pc = "idle"
  /\ \E id \in IdsOf(app.algorithms) \ {app.algorithmId} :
       app' = [app EXCEPT !.algorithmId = id]
  /\ UNCHANGED parked

NextAlgos ==
  \/ reloadAlgorithms
  \/ FetchResolved
  \/ FetchRejected
  \/ SelectAlgorithm

SpecAlgos == InitAlgos /\ [][NextAlgos]_vars

(***************************************************************************)
(* Loading a map state file (the latest App: the file input and            *)
(* parseMapState).  A JSON value is a record with its type in t: null,     *)
(* undefined (a missing property), number n, string s, boolean b, array    *)
(* (a, a sequence) or object (f, a record of properties).                  *)
(***************************************************************************)
Undefined == [t |-> "undefined"]
JNum(n) == [t |-> "number", n |-> n]
JStr(str) == [t |-> "string", s |-> str]
JBool(b) == [t |-> "boolean", b |-> b]
JArr(seq) == [t |-> "array", a |-> seq]
JObj(fields) == [t |-> "object", f |-> fields]

\* value.name
Get(value, name) ==
  IF value.t = "object" /\ name \in DOMAIN value.f THEN value.f[name] ELSE Undefined

\* !value
Falsy(value) ==
  \/ value.t \in {"null", "undefined"}
  \/ value.t = "number" /\ value.n = 0
  \/ value.t = "string" /\ value.s = ""
  \/ value.t = "boolean" /\ ~value.b

\* typeof value === 'object'
TypeofObject(value) == value.t \in {"object", "array", "null"}

\* Number.isFinite(value): the numbers of a JSON text kept here are finite
NumberIsFinite(value) == value.t = "number"

basemapOptions == {"osm", "topo", "satellite", "humanitarian"}

\* isLatLng with the test of value.lng left out
isLatLng_LatOnly(value) ==
  /\ ~Falsy(value)
  /\ TypeofObject(value)
  /\ NumberIsFinite(Get(value, "lat"))

isLatLng(value) ==
  /\ ~Falsy(value)
  /\ TypeofObject(value)
  /\ NumberIsFinite(Get(value, "lat"))
  /\ NumberIsFinite(Get(value, "lng"))

isLatLngBounds(value) ==
  /\ ~Falsy(value)
  /\ TypeofObject(value)
  /\ NumberIsFinite(Get(value, "south"))
  /\ NumberIsFinite(Get(value, "west"))
  /\ NumberIsFinite(Get(value, "north"))
  /\ NumberIsFinite(Get(value, "east"))

isPolygonFeature(value) ==
  /\ Get(value, "type") = JStr("Feature")
  /\ \/ Get(Get(value, "geometry"), "type") = JStr("Polygon")
     \/ Get(Get(value, "geometry"), "type") = JStr("MultiPolygon")

RECURSIVE coerceEntries(_, _, _)
coerceEntries(entries, i, types) ==
  IF i > Len(entries) THEN types
  ELSE LET entry == entries[i]
           skip == \/ Falsy(entry) \/ ~TypeofObject(entry)
                   \/ Get(entry, "id").t # "string" \/ Get(entry, "name").t # "string"
                   \/ ~NumberIsFinite(Get(entry, "multiplier")) \/ Get(entry, "color").t # "string"
                   \/ \E k \in DOMAIN types : types[k].id = Get(entry, "id").s
       IN  IF skip THEN coerceEntries(entries, i + 1, types)
           ELSE coerceEntries(entries, i + 1,
                  Append(types, [id |-> Get(entry, "id").s, name |-> Get(entry, "name").s,
                                 multiplier |-> clamp(RInt(Get(entry, "multiplier").n), Rat(1, 10), RInt(50)),
                                 color |-> Get(entry, "color").s]))

coerceCostZoneTypes(raw, fallback) ==
  IF raw.t # "array" THEN fallback
  ELSE LET types == coerceEntries(raw.a, 1, <<>>)
       IN  IF Len(types) > 0 THEN types ELSE fallback

coerceDrawMode(raw, costZoneTypes) ==
  IF Falsy(raw) \/ ~TypeofObject(raw) THEN Some([kind |-> "NO_FLY"])
  ELSE IF Get(raw, "kind") = JStr("NO_FLY") THEN Some([kind |-> "NO_FLY"])
  ELSE IF Get(raw, "kind") = JStr("COST")
       THEN IF Get(raw, "costTypeId").t # "string" THEN Null
            ELSE IF \E k \in DOMAIN costZoneTypes : costZoneTypes[k].id = Get(raw, "costTypeId").s
                 THEN Some([kind |-> "COST", costTypeId |-> Get(raw, "costTypeId").s])
                 ELSE IF Len(costZoneTypes) > 0
                      THEN Some([kind |-> "COST", costTypeId |-> costZoneTypes[1].id])
                      ELSE Null
  ELSE Null

\* the loop over raw.zones of a version 2 file: null, or the zones
RECURSIVE parseZones2(_, _, _, _)
parseZones2(rawZones, i, costZoneTypes, zones) ==
  IF i > Len(rawZones) THEN Some(zones)
  ELSE LET zone == rawZones[i]
       IN  IF Falsy(zone) \/ ~TypeofObject(zone) THEN Null
           ELSE IF Get(zone, "id").t # "string" \/ Get(zone, "name").t # "string" THEN Null
           ELSE IF Get(zone, "type") = JStr("NO_FLY")
                THEN IF ~isPolygonFeature(Get(zone, "shape")) THEN Null
                     ELSE parseZones2(rawZones, i + 1, costZoneTypes,
                            Append(zones, [id |-> Get(zone, "id").s, name |-> Get(zone, "name").s,
                                           type |-> "NO_FLY", shape |-> Get(zone, "shape")]))
           ELSE IF Get(zone, "type") = JStr("COST")
                THEN IF ~isPolygonFeature(Get(zone, "shape")) THEN Null
                     ELSE IF Get(zone, "costTypeId").t # "string" THEN Null
                     ELSE LET costTypeId ==
                                IF \E k \in DOMAIN costZoneTypes :
                                      costZoneTypes[k].id = Get(zone, "costTypeId").s
                                THEN Get(zone, "costTypeId").s
                                ELSE costZoneTypes[1].id
                          IN  IF costTypeId = "" THEN Null
                              ELSE parseZones2(rawZones, i + 1, costZoneTypes,
                                     Append(zones,
                                       [id |-> Get(zone, "id").s, name |-> Get(zone, "name").s,
                                        type |-> "COST", costTypeId |-> costTypeId,
                                        shape |-> Get(zone, "shape")]))
           ELSE Null

COST_TYPE_COLORS == <<"#2f9e44", "#fd7e14", "#845ef7", "#12b886", "#e64980", "#339af0">>

RECURSIVE firstUnused(_, _)
firstUnused(types, i) ==
  IF i > Len(COST_TYPE_COLORS) THEN COST_TYPE_COLORS[(Len(types) % Len(COST_TYPE_COLORS)) + 1]
  ELSE IF \E k \in DOMAIN types : types[k].color = COST_TYPE_COLORS[i] THEN firstUnused(types, i + 1)
  ELSE COST_TYPE_COLORS[i]

pickNextCostTypeColor(types) == firstUnused(types, 1)

Digit == <<"0", "1", "2", "3", "4", "5", "6", "7", "8", "9">>

\* String(n) of an integer 0..99
DecimalString(n) == IF n < 10 THEN Digit[n + 1] ELSE Digit[(n \div 10) + 1] \o Digit[(n % 10) + 1]

\* String(multiplier) of a clamped multiplier: an integer 1..50, or 0.1
MultiplierString(m) == IF m = Rat(1, 10) THEN "0.1" ELSE DecimalString(m[1])

\* the same with every run of characters outside a-z0-9 replaced by "-"
MultiplierSlug(m) == IF m = Rat(1, 10) THEN "0-1" ELSE DecimalString(m[1])

RECURSIVE nextCandidate(_, _, _)
nextCandidate(base, suffix, existing) ==
  LET candidate == base \o "-" \o DecimalString(suffix)
  IN  IF \E k \in DOMAIN existing : existing[k].id = candidate
      THEN nextCandidate(base, suffix + 1, existing)
      ELSE candidate

\* makeCostTypeId(`Cost x${multiplier}`, existing)
makeCostTypeId(multiplier, existing) ==
  LET base == "cost-x" \o MultiplierSlug(multiplier)
  IN  IF \E k \in DOMAIN existing : existing[k].id = base
      THEN nextCandidate(base, 2, existing)
      ELSE base

\* ensureCostType(multiplierRaw): the cost types after the call
ensureCostType(multiplierRaw, costZoneTypes) ==
  LET multiplier == clamp(RInt(multiplierRaw), Rat(1, 10), RInt(50))
  IN  IF \E k \in DOMAIN costZoneTypes : costZoneTypes[k].multiplier = multiplier
      THEN costZoneTypes
      ELSE Append(costZoneTypes,
             [id |-> makeCostTypeId(multiplier, costZoneTypes),
              name |-> "Cost x" \o MultiplierString(multiplier),
              multiplier |-> multiplier,
              color |-> pickNextCostTypeColor(costZoneTypes)])

\* the cost type ensureCostType(multiplierRaw) returns
ensuredType(multiplierRaw, costZoneTypes) ==
  LET multiplier == clamp(RInt(multiplierRaw), Rat(1, 10), RInt(50))
      types == ensureCostType(multiplierRaw, costZoneTypes)
  IN  types[CHOOSE k \in DOMAIN types : types[k].multiplier = multiplier]

\* the loop over raw.zones of a version 1 file: null, or the zones and the
\* cost types made for them
RECURSIVE parseZones1(_, _, _, _)
parseZones1(rawZones, i, costZoneTypes, zones) ==
  IF i > Len(rawZones) THEN Some([zones |-> zones, costZoneTypes |-> costZoneTypes])
  ELSE LET zone == rawZones[i]
       IN  IF Falsy(zone) \/ ~TypeofObject(zone) THEN Null
           ELSE IF Get(zone, "id").t # "string" \/ Get(zone, "name").t # "string" THEN Null
           ELSE IF Get(zone, "type") = JStr("NO_FLY")
                THEN IF ~isPolygonFeature(Get(zone, "shape")) THEN Null
                     ELSE parseZones1(rawZones, i + 1, costZoneTypes,
                            Append(zones, [id |-> Get(zone, "id").s, name |-> Get(zone, "name").s,
                                           type |-> "NO_FLY", shape |-> Get(zone, "shape")]))
           ELSE IF Get(zone, "type") = JStr("COST")
                THEN IF ~isPolygonFeature(Get(zone, "shape")) THEN Null
                     ELSE IF ~NumberIsFinite(Get(zone, "multiplier")) THEN Null
                     ELSE parseZones1(rawZones, i + 1,
                            ensureCostType(Get(zone, "multiplier").n, costZoneTypes),
                            Append(zones,
                              [id |-> Get(zone, "id").s, name |-> Get(zone, "name").s, type |-> "COST",
                               costTypeId |-> ensuredType(Get(zone, "multiplier").n, costZoneTypes).id,
                               shape |-> Get(zone, "shape")]))
           ELSE Null

parseMapState(raw) ==
  IF Falsy(raw) \/ ~TypeofObject(raw) THEN Null
  ELSE IF ~(Get(raw, "basemap").t = "string" /\ Get(raw, "basemap").s \in basemapOptions) THEN Null
  ELSE IF ~NumberIsFinite(Get(raw, "resolutionM")) THEN Null
  ELSE IF ~NumberIsFinite(Get(raw, "noFlyBufferM")) THEN Null
  ELSE IF Get(raw, "start") # JNull /\ ~isLatLng(Get(raw, "start")) THEN Null
  ELSE IF Get(raw, "goal") # JNull /\ ~isLatLng(Get(raw, "goal")) THEN Null
  ELSE IF Get(raw, "planningBounds") # JNull /\ ~isLatLngBounds(Get(raw, "planningBounds")) THEN Null
  ELSE IF Get(raw, "zones").t # "array" THEN Null
  ELSE LET common ==
             [start |-> Get(raw, "start"), goal |-> Get(raw, "goal"),
              planningBounds |-> Get(raw, "planningBounds"),
              resolutionM |-> Get(raw, "resolutionM").n, basemap |-> Get(raw, "basemap").s,
              noFlyBufferM |-> Get(raw, "noFlyBufferM").n]
       IN  IF Get(raw, "version") = JNum(2)
           THEN LET costZoneTypes == coerceCostZoneTypes(Get(raw, "costZoneTypes"), DEFAULT_COST_ZONE_TYPES)
                    zones == parseZones2(Get(raw, "zones").a, 1, costZoneTypes, <<>>)
                    drawMode == coerceDrawMode(Get(raw, "drawMode"), costZoneTypes)
                IN  IF zones = Null \/ drawMode = Null THEN Null
                    ELSE Some([zones |-> zones[1], common |-> common,
                               avoidHighMultiplier |->
                                  IF Get(raw, "avoidHighMultiplier").t = "boolean"
                                  THEN Get(raw, "avoidHighMultiplier").b ELSE FALSE,
                               rolloffStrength |->
                                  IF NumberIsFinite(Get(raw, "rolloffStrength"))
                                  THEN clamp(RInt(Get(raw, "rolloffStrength").n), RZero, RInt(2))
                                  ELSE RInt(DEFAULT_ROLLOFF_STRENGTH),
                               rolloffDistanceM |->
                                  IF NumberIsFinite(Get(raw, "rolloffDistanceM"))
                                  THEN clamp(RInt(Get(raw, "rolloffDistanceM").n), RZero, RInt(1000))
                                  ELSE RInt(DEFAULT_ROLLOFF_DISTANCE_M),
                               costZoneTypes |-> costZoneTypes, drawMode |-> drawMode[1]])
           ELSE IF Get(raw, "version") = JNum(1)
           THEN LET parsed == parseZones1(Get(raw, "zones").a, 1, <<>>, <<>>)
                IN  IF parsed = Null THEN Null
                    ELSE LET costZoneTypes ==
                               IF Len(parsed[1].costZoneTypes) = 0 /\ NumberIsFinite(Get(raw, "drawMultiplier"))
                               THEN ensureCostType(Get(raw, "drawMultiplier").n, <<>>)
                               ELSE parsed[1].costZoneTypes
                         IN  Some([zones |-> parsed[1].zones, common |-> common,
                                   avoidHighMultiplier |-> FALSE,
                                   rolloffStrength |-> RInt(DEFAULT_ROLLOFF_STRENGTH),
                                   rolloffDistanceM |-> RInt(DEFAULT_ROLLOFF_DISTANCE_M),
                                   costZoneTypes |->
                                      IF Len(costZoneTypes) > 0 THEN costZoneTypes
                                      ELSE DEFAULT_COST_ZONE_TYPES,
                                   drawMode |-> [kind |-> "NO_FLY"]])
           ELSE Null

\* a file whose text JSON.parse throws on
NotJson == [t |-> "notjson"]

RawPoint(lat, lng) == JObj([lat |-> JNum(lat), lng |-> JNum(lng)])
RawBounds(south, west, north, east) ==
  JObj([south |-> JNum(south), west |-> JNum(west), north |-> JNum(north), east |-> JNum(east)])

\* a GeoJSON feature; the ring of a polygon is kept as the rectangle it is
RawFeature(geometryType, ring) ==
  JObj([type |-> JStr("Feature"),
        geometry |-> JObj([type |-> JStr(geometryType), coordinates |-> JArr(ring)])])

RawNoFly(id, ring) ==
  JObj([id |-> JStr(id), name |-> JStr("No-fly"), type |-> JStr("NO_FLY"),
        shape |-> RawFeature("Polygon", ring)])

\* obj with property name set to value, and with it deleted
Having(obj, name, value) ==
  JObj([n \in DOMAIN obj.f \cup {name} |-> IF n = name THEN value ELSE obj.f[n]])
Lacking(obj, name) == JObj([n \in DOMAIN obj.f \ {name} |-> obj.f[n]])

ValidV2 ==
  JObj([version |-> JNum(2), basemap |-> JStr("topo"), resolutionM |-> JNum(20),
        noFlyBufferM |-> JNum(5), start |-> RawPoint(1, 2), goal |-> JNull,
        planningBounds |-> RawBounds(0, 0, 8, 8),
        zones |-> JArr(<< RawNoFly("z1", Rect(0, 0, 4, 4)),
                          JObj([id |-> JStr("z2"), name |-> JStr("Cost"), type |-> JStr("COST"),
                                costTypeId |-> JStr("gone"),
                                shape |-> RawFeature("MultiPolygon", Rect(2, 2, 6, 8))]) >>),
        costZoneTypes |-> JArr(<< JObj([id |-> JStr("custom"), name |-> JStr("Custom"),
                                        multiplier |-> JNum(100), color |-> JStr("#339af0")]),
                                  JObj([id |-> JStr("custom"), name |-> JStr("Again"),
                                        multiplier |-> JNum(2), color |-> JStr("#845ef7")]),
                                  JStr("residential") >>),
        drawMode |-> JObj([kind |-> JStr("COST"), costTypeId |-> JStr("custom")]),
        avoidHighMultiplier |-> JBool(TRUE), rolloffStrength |-> JNum(3),
        rolloffDistanceM |-> JNum(70)])

ValidV1 ==
  JObj([version |-> JNum(1), basemap |-> JStr("osm"), resolutionM |-> JNum(10),
        noFlyBufferM |-> JNum(20), start |-> JNull, goal |-> RawPoint(5, 6),
        planningBounds |-> JNull,
        zones |-> JArr(<< RawNoFly("z1", Rect(2, 2, 6, 8)),
                          JObj([id |-> JStr("z2"), name |-> JStr("Cost"), type |-> JStr("COST"),
                                multiplier |-> JNum(0),
                                shape |-> RawFeature("Polygon", Rect(0, 0, 4, 4))]),
                          JObj([id |-> JStr("z3"), name |-> JStr("Cost"), type |-> JStr("COST"),
                                multiplier |-> JNum(12),
                                shape |-> RawFeature("Polygon", Rect(0, 0, 4, 4))]) >>)])

\* a version 2 file with only the properties parseMapState requires
MinimalV2 ==
  JObj([version |-> JNum(2), basemap |-> JStr("satellite"), resolutionM |-> JNum(10),
        noFlyBufferM |-> JNum(10), start |-> JNull, goal |-> JNull, planningBounds |-> JNull,
        zones |-> JArr(<<>>)])

\* a version 2 file whose planning rectangle has no extent
PointV2 ==
  Having(Having(Having(MinimalV2, "planningBounds", RawBounds(0, 0, 0, 0)),
                "start", RawPoint(7, 7)),
         "goal", RawPoint(1, 1))

GoodFiles == <<ValidV2, ValidV1, MinimalV2, PointV2>>

\* files that fail one check of parseMapState each, in the order of the checks
CorruptFiles ==
  << JNull, JNum(2), JStr("map"), JArr(<<>>),
    Having(ValidV2, "basemap", JStr("mapbox")),
    Lacking(ValidV1, "basemap"),
    Having(ValidV2, "resolutionM", JStr("20")),
    Lacking(ValidV2, "noFlyBufferM"),
    Having(ValidV2, "start", JObj([lat |-> JNum(1)])),
    Lacking(ValidV1, "start"),
    Having(ValidV1, "goal", JArr(<<JNum(5), JNum(6)>>)),
    Having(ValidV2, "planningBounds", RawPoint(0, 0)),
    Having(ValidV1, "zones", JObj([z1 |-> JNull])),
    Having(ValidV2, "version", JNum(3)),
    Having(ValidV2, "version", JStr("2")),
    Lacking(ValidV1, "version"),
    Having(MinimalV2, "zones", JArr(<<JNull>>)),
    Having(MinimalV2, "zones", JArr(<<Lacking(RawNoFly("z1", Rect(0, 0, 4, 4)), "id")>>)),
    Having(MinimalV2, "zones",
         JArr(<<Having(RawNoFly("z1", Rect(0, 0, 4, 4)), "shape", RawFeature("Point", <<>>))>>)),
    Having(MinimalV2, "zones",
         JArr(<<Having(RawNoFly("z1", Rect(0, 0, 4, 4)), "type", JStr("COST"))>>)),
    Having(MinimalV2, "zones",
         JArr(<<Having(RawNoFly("z1", Rect(0, 0, 4, 4)), "type", JStr("RESTRICTED"))>>)),
    Having(ValidV1, "zones",
         JArr(<<Having(RawNoFly("z1", Rect(0, 0, 4, 4)), "type", JStr("COST"))>>)),
    Having(MinimalV2, "drawMode", JObj([kind |-> JStr("COST")])),
    Having(MinimalV2, "drawMode", JObj([kind |-> JStr("ERASE")])) >>

MapFiles == GoodFiles \o CorruptFiles \o <<NotJson>>

(***************************************************************************)
(* The App (geo/polygon.ts 886-1704, the App with cost zone types).  app   *)
(* holds its state hooks.  A position {lat, lng}, bounds {south, west,     *)
(* north, east} and the shape of a zone are the JSON values of a map state *)
(* file, and a position is named by its Web Mercator image: {lat: y,       *)
(* lng: x} is the position lonLatToMercator takes to (x, y).  Beside the   *)
(* hooks app holds                                                         *)
(*   planningIsView  planningBounds and currentViewBounds are one object   *)
(*   drawn           the number of zone ids the map has given out          *)
(*   fetches         the algorithmId of every reloadAlgorithms at its await*)
(*   loads           the file of every load handler at its await           *)
(*   inflight        the request of runAlgorithm at its await              *)
(*   alert, loaded   the alert the last handler showed, the file it read   *)
(*   session         the inputs its user chooses from (Sessions)           *)
(* An action is one handler, or the part of an async handler between two   *)
(* awaits, with the render and the effects it causes.  MapView hands the   *)
(* handlers of every render to the drawing controls (MapView.tsx 198-203), *)
(* and a zone event calls the handlers the controls hold: ZoneHandlers.    *)
(* The value of the raster memo in the render of a state is                *)
(* RasterMemo(app): the memo is computed again whenever one of its         *)
(* dependencies is another value, and from nothing else.                   *)
(***************************************************************************)
MAX_VISITED == 50000

lonLatToMercator(lng, lat) == Pt(lng, lat)

\* the point of a position {lat, lng}
PointOf(q) == lonLatToMercator(Get(q, "lng").n, Get(q, "lat").n)

latLngBoundsToMercatorBounds(b) ==
  LET sw == lonLatToMercator(Get(b, "west").n, Get(b, "south").n)
      ne == lonLatToMercator(Get(b, "east").n, Get(b, "north").n)
  IN  [minX |-> IF sw[1] < ne[1] THEN sw[1] ELSE ne[1],
       minY |-> IF sw[2] < ne[2] THEN sw[2] ELSE ne[2],
       maxX |-> Max(sw[1], ne[1]),
       maxY |-> Max(sw[2], ne[2])]

\* turf.buffer(shape, d, { units: 'meters' }), a feature
bufferShape(shape, d) ==
  RawFeature("Polygon", buffer(Get(Get(shape, "geometry"), "coordinates").a, d))

\* featureToMercatorPolygons(f) of a feature kept by its ring
featureToMercatorPolygons(f) == << <<Get(Get(f, "geometry"), "coordinates").a>> >>

\* an entry of `compiled` in rasterizeZonesToGrid
Compiled(z) ==
  IF z.type = "NO_FLY" THEN NoFly(featureToMercatorPolygons(z.buffered))
  ELSE Cost(z.costTypeId, featureToMercatorPolygons(z.shape))

\* the index of the entry that new Map(costZoneTypes.map((type) =>
\* [type.id, type])) keeps for id: the last one
TypeIndex(costZoneTypes, id) ==
  CHOOSE k \in DOMAIN costZoneTypes :
     /\ costZoneTypes[k].id = id
     /\ \A j \in DOMAIN costZoneTypes : costZoneTypes[j].id = id => j <= k

\* costTypeById of rasterizeZonesToGrid, by the multiplier of the type
costTypeById(costZoneTypes) ==
  [id \in {costZoneTypes[k].id : k \in DOMAIN costZoneTypes} |->
     costZoneTypes[TypeIndex(costZoneTypes, id)].multiplier]

\* the parameters the memo passes to rasterizeZonesToGrid (992-1016), with
\* the zones compiled and the cost types in their map; the rolloff
\* distances used are whole metres
AppParams(a) ==
  [cellSizeM |-> a.resolutionM, bounds |-> latLngBoundsToMercatorBounds(a.planningBounds),
   zones |-> [k \in DOMAIN a.zones |-> Compiled(a.zones[k])],
   costZoneTypes |-> costTypeById(a.costZoneTypes),
   avoidHighMultiplier |-> a.avoidHighMultiplier,
   rolloffStrength |-> a.rolloffStrength,
   rolloffDistanceM |-> a.rolloffDistanceM[1], roundedBelow |-> {}]

rasterizeZonesToGrid(p) ==
  [env |-> GridEnvironment(p, Rasterize(p)), cellCount |-> CellCount(p)]

\* the raster memo whose guard returns without an error message
RasterMemo_ErrorUnreported(a) ==
  IF a.planningBounds = JNull THEN NoRaster
  ELSE LET p == AppParams(a)
       IN  IF CellCount(p) > MAX_CELLS
           THEN [env |-> NoEnv, cellCount |-> CellCount(p), error |-> ""]
           ELSE [env |-> rasterizeZonesToGrid(p).env, cellCount |-> CellCount(p), error |-> ""]

\* const raster = useMemo(...); error "" stands for null
RasterMemo(a) ==
  IF a.planningBounds = JNull THEN NoRaster
  ELSE LET p == AppParams(a)
       IN  IF CellCount(p) > MAX_CELLS
           THEN [env |-> NoEnv, cellCount |-> CellCount(p), error |-> "Grid too large."]
           ELSE [env |-> rasterizeZonesToGrid(p).env, cellCount |-> CellCount(p), error |-> ""]

\* the effect on [noFlyBufferM]: every NO_FLY zone is buffered again
RebufferedZones(zs, d) ==
  [k \in DOMAIN zs |->
     IF zs[k].type # "NO_FLY" THEN zs[k]
     ELSE [zs[k] EXCEPT !.buffered = bufferShape(zs[k].shape, d)]]

\* The render after a handler took the App from `before` to `after`, with
\* its effects and the renders they cause: the fallback of drawMode
\* (937-946), the first planning bounds (949-953), the buffers (955-963),
\* and the clearing of runResult (1031-1033).
\* fresh: the handler set zones or planningBounds to a new array or object.
\* The effects compare their dependencies by identity: the array the buffer
\* effect sets is always a new one, and a number is the same when equal.
Effects(before, after, fresh) ==
  LET a1 == IF /\ after.drawMode.kind = "COST"
               /\ ~\E k \in DOMAIN after.costZoneTypes :
                      after.costZoneTypes[k].id = after.drawMode.costTypeId
            THEN [after EXCEPT !.drawMode =
                    IF Len(after.costZoneTypes) > 0
                    THEN [kind |-> "COST", costTypeId |-> after.costZoneTypes[1].id]
                    ELSE [kind |-> "NO_FLY"]]
            ELSE after
      a2 == IF a1.planningBounds = JNull /\ a1.currentViewBounds # JNull
            THEN [a1 EXCEPT !.planningBounds = a1.currentViewBounds, !.planningIsView = TRUE]
            ELSE a1
      a3 == IF a2.noFlyBufferM # before.noFlyBufferM
            THEN [a2 EXCEPT !.zones = RebufferedZones(a2.zones, a2.noFlyBufferM)]
            ELSE a2
      cleared == \/ fresh
                 \/ a3.planningBounds # before.planningBounds
                 \/ a3.resolutionM # before.resolutionM
                 \/ a3.noFlyBufferM # before.noFlyBufferM
      a4 == IF cleared THEN [a3 EXCEPT !.runResult = Null] ELSE a3
  IN  a4

\* Array.from(env.blocked, (b) => (b ? 1 : 0))
SerializeBlocked(b) == [id \in DOMAIN b |-> IF b[id] # 0 THEN 1 ELSE 0]

\* Array.from(env.costMultiplier, (c) => (Number.isFinite(c) ? c : 1))
SerializeCostMultiplier(c) == [id \in DOMAIN c |-> IF IsFinite(c[id]) THEN c[id] ELSE ROne]

\* the problem of the run request
GridProblem(e, sCell, gCell) ==
  [width |-> e.width, height |-> e.height, cell_size_m |-> e.cellSizeM,
   bounds |-> e.bounds, start |-> sCell, goal |-> gCell,
   blocked |-> SerializeBlocked(e.blocked),
   cost_multiplier |-> SerializeCostMultiplier(e.costMultiplier)]

\* the request runAlgorithm waits for; settled tells how its fetch ended
Request(a, e, sCell, gCell) ==
  [algorithm_id |-> a.algorithmId, problem |-> GridProblem(e, sCell, gCell),
   options |-> [return_visited |-> a.showVisited, max_visited |-> MAX_VISITED],
   settled |-> "no"]

\* the handler that starts shows no alert and has read no file
Quiet(a) == [a EXCEPT !.alert = "", !.loaded = Null]

\* runAlgorithm without the test of the goal cell
runAlgorithm_GoalUnchecked(a, memo) ==
  LET a1 == [a EXCEPT !.runResult = Null]
      e == memo.env
  IN  IF e = NoEnv \/ a.start = JNull \/ a.goal = JNull \/ a.algorithmId = "" THEN a1
      ELSE LET sCell == worldToCell(e, PointOf(a.start)[1], PointOf(a.start)[2])
               gCell == worldToCell(e, PointOf(a.goal)[1], PointOf(a.goal)[2])
           IN  IF sCell = Null \/ gCell = Null
               THEN [a1 EXCEPT !.alert = "Start or goal is outside the planning area rectangle."]
               ELSE IF isBlocked(e, sCell[1])
               THEN [a1 EXCEPT !.alert = "Start is inside a no-fly region."]
               ELSE [a1 EXCEPT !.isRunning = TRUE,
                               !.inflight = Some(Request(a, e, sCell[1], gCell[1]))]

\* runAlgorithm up to the await of its request (1106-1142); memo is the
\* value of the raster memo in the render the click came from
runAlgorithm(a, memo) ==
  LET a1 == [a EXCEPT !.runResult = Null]
      e == memo.env
  IN  IF e = NoEnv \/ a.start = JNull \/ a.goal = JNull \/ a.algorithmId = "" THEN a1
      ELSE LET sCell == worldToCell(e, PointOf(a.start)[1], PointOf(a.start)[2])
               gCell == worldToCell(e, PointOf(a.goal)[1], PointOf(a.goal)[2])
           IN  IF sCell = Null \/ gCell = Null
               THEN [a1 EXCEPT !.alert = "Start or goal is outside the planning area rectangle."]
               ELSE IF isBlocked(e, sCell[1])
               THEN [a1 EXCEPT !.alert = "Start is inside a no-fly region."]
               ELSE IF isBlocked(e, gCell[1])
               THEN [a1 EXCEPT !.alert = "Goal is inside a no-fly region."]
               ELSE [a1 EXCEPT !.isRunning = TRUE,
                               !.inflight = Some(Request(a, e, sCell[1], gCell[1]))]

\* disabled={!raster.env || !!raster.error || !start || !goal || !algorithmId
\*           || !!algoError || isRunning}
RunButtonEnabled(a, memo) ==
  /\ a.start # JNull /\ a.goal # JNull
  /\ a.algorithmId # "" /\ ~a.algoError /\ ~a.isRunning
  /\ memo.env # NoEnv /\ memo.error = ""

\* selectedCostType (933-934): null, or the cost type
selectedCostType(a) ==
  IF a.drawMode.kind # "COST" THEN Null
  ELSE IF \E k \in DOMAIN a.costZoneTypes : a.costZoneTypes[k].id = a.drawMode.costTypeId
       THEN Some(a.costZoneTypes[TypeIndex(a.costZoneTypes, a.drawMode.costTypeId)])
       ELSE IF Len(a.costZoneTypes) > 0 THEN Some(a.costZoneTypes[1]) ELSE Null

\* drawSelection (935)
drawSelection(a) == IF a.drawMode.kind = "NO_FLY" THEN "NO_FLY" ELSE a.drawMode.costTypeId

\* costZoneCounts.get(id) ?? 0
usageCount(a, id) ==
  Cardinality({k \in DOMAIN a.zones : a.zones[k].type = "COST" /\ a.zones[k].costTypeId = id})

\* prev.map((entry) => (entry.id === id ? change(entry) : entry))
WithEntry(types, id, change(_)) ==
  [k \in DOMAIN types |-> IF types[k].id = id THEN change(types[k]) ELSE types[k]]

\* the state the load handler sets from an accepted file (1310-1331)
Applied(a, next) ==
  [a EXCEPT
     !.zones = [k \in DOMAIN next.zones |->
                  IF next.zones[k].type = "NO_FLY"
                  THEN [id |-> next.zones[k].id, name |-> next.zones[k].name, type |-> "NO_FLY",
                        shape |-> next.zones[k].shape,
                        buffered |-> bufferShape(next.zones[k].shape, next.common.noFlyBufferM)]
                  ELSE next.zones[k]],
     !.start = next.common.start, !.goal = next.common.goal,
     !.planningBounds = next.common.planningBounds, !.planningIsView = FALSE,
     !.resolutionM = next.common.resolutionM, !.basemap = next.common.basemap,
     !.noFlyBufferM = next.common.noFlyBufferM,
     !.avoidHighMultiplier = next.avoidHighMultiplier,
     !.rolloffStrength = next.rolloffStrength, !.rolloffDistanceM = next.rolloffDistanceM,
     !.costZoneTypes = next.costZoneTypes, !.drawMode = next.drawMode,
     !.placementMode = "null", !.runResult = Null]

\* the state hooks of the App
StateOf(a) ==
  [resolutionM |-> a.resolutionM, zones |-> a.zones,
   activeColorPickerId |-> a.activeColorPickerId, basemap |-> a.basemap,
   costZoneTypes |-> a.costZoneTypes, drawMode |-> a.drawMode,
   noFlyBufferM |-> a.noFlyBufferM, avoidHighMultiplier |-> a.avoidHighMultiplier,
   rolloffStrength |-> a.rolloffStrength, rolloffDistanceM |-> a.rolloffDistanceM,
   start |-> a.start, goal |-> a.goal, placementMode |-> a.placementMode,
   currentViewBounds |-> a.currentViewBounds, planningBounds |-> a.planningBounds,
   algorithms |-> a.algorithms, algorithmId |-> a.algorithmId, algoError |-> a.algoError,
   showVisited |-> a.showVisited, showCostHeatmap |-> a.showCostHeatmap,
   isRunning |-> a.isRunning, runResult |-> a.runResult,
   newCostTypeName |-> a.newCostTypeName, newCostTypeMultiplier |-> a.newCostTypeMultiplier]

(***************************************************************************)
(* The inputs of a session: what the user of the App chooses from, and     *)
(* what the backend answers.  controls are the buttons, selects and        *)
(* checkboxes used, rows the rows of the cost type list that are edited,   *)
(* files indices of MapFiles, failures the requests that can fail.         *)
(***************************************************************************)
\* views of the map: 8 m x 8 m, 5 m x 8 m (a span that is no multiple of
\* the resolutions), and one of more than MAX_CELLS cells at 10 m
SquareView == RawBounds(0, 0, 8, 8)
StripView == RawBounds(0, 0, 8, 5)
WideView == RawBounds(0, 0, 5000, 5010)

\* shapes drawn on the map: one whose buffer of DEFAULT_NO_FLY_BUFFER_M
\* reaches the centre of the first cell of the square view only, and one
\* inside the view
FarShape == Rect(-20, -20, -8, -8)
NearShape == Rect(0, 0, 4, 4)

\* name.trim() of the names typed into the inputs
trim(name) ==
  CASE name = " River bank" -> "River bank"
    [] name = "  " -> ""
    [] OTHER -> name

\* name.toLowerCase().trim().replace(/[^a-z0-9]+/g, '-')
\*     .replace(/(^-|-$)/g, '') || 'cost-type' of those names
slug(name) ==
  CASE name = "Park" -> "park"
    [] name = "River bank" -> "river-bank"
    [] OTHER -> "cost-type"

NoInputs ==
  [controls |-> {}, rows |-> {}, basemaps |-> {}, files |-> {}, resolutions |-> {},
   views |-> {}, buffers |-> {}, shapes |-> {}, colors |-> {}, typeNames |-> {},
   multipliers |-> {}, newNames |-> {}, newMultipliers |-> {}, strengths |-> {},
   distances |-> {}, placements |-> {}, clicks |-> {}, lists |-> {<<"astar">>},
   failures |-> {}]

SessionNames ==
  {"plan", "block", "draw", "retire", "cost", "types", "files", "reload", "backend",
   "display"}

Sessions ==
  [s \in SessionNames |->
     CASE s = "plan" ->
            \* the planning area, the resolution, start and goal, and runs
            [NoInputs EXCEPT
               !.controls = {"planningArea", "run", "clearPoints"},
               !.views = {SquareView, StripView, WideView},
               !.resolutions = {2, DEFAULT_RESOLUTION_M},
               !.files = {4},
               !.placements = {"start", "goal"},
               !.clicks = {Pt(7, 7)},
               !.failures = {"run"}]
       [] s = "block" ->
            \* runs on a grid with a zone
            [NoInputs EXCEPT
               !.controls = {"run", "clearPath"},
               !.views = {SquareView},
               !.resolutions = {2},
               !.shapes = {FarShape},
               !.placements = {"start", "goal"},
               !.clicks = {Pt(7, 7), Pt(1, 1), Pt(-1, -1)}]
       [] s = "draw" ->
            \* zones drawn, edited and deleted, and their buffer
            [NoInputs EXCEPT
               !.controls = {"drawMode", "planningArea"},
               !.rows = {1},
               !.views = {SquareView},
               !.resolutions = {2},
               !.buffers = {1, DEFAULT_NO_FLY_BUFFER_M},
               !.shapes = {FarShape, NearShape}]
       [] s = "retire" ->
            \* a cost type deleted while zones of it are on the map
            [NoInputs EXCEPT
               !.controls = {"drawMode", "deleteType"},
               !.rows = {1},
               !.views = {SquareView},
               !.resolutions = {2},
               !.shapes = {NearShape}]
       [] s = "cost" ->
            \* the multipliers and the rolloff
            [NoInputs EXCEPT
               !.controls = {"drawMode", "avoid"},
               !.rows = {1},
               !.views = {SquareView},
               !.resolutions = {2},
               !.shapes = {NearShape},
               !.multipliers = {NaN, RInt(3), RInt(100)},
               !.strengths = {Rat(1, 2)},
               !.distances = {5}]
       [] s = "types" ->
            \* the list of cost types
            [NoInputs EXCEPT
               !.controls = {"drawMode", "deleteType"},
               !.rows = {4},
               !.colors = {"#339af0"},
               !.typeNames = {"Homes"},
               !.newNames = {"Park", " River bank", "  "},
               !.newMultipliers = {NaN}]
       [] s = "files" ->
            \* every map state file
            [NoInputs EXCEPT
               !.files = DOMAIN MapFiles,
               !.basemaps = {"humanitarian"}]
       [] s = "reload" ->
            \* a map state file loaded into an application in use: an
            \* accepted file, a rejected one and one that is no JSON
            [NoInputs EXCEPT
               !.controls = {"run"},
               !.files = {1, Len(GoodFiles) + Len(CorruptFiles), Len(MapFiles)},
               !.basemaps = {"humanitarian"},
               !.placements = {"goal"},
               !.clicks = {Pt(3, 3)}]
       [] s = "backend" ->
            \* the algorithm list
            [NoInputs EXCEPT
               !.controls = {"refresh", "algorithm"},
               !.lists = BackendLists,
               !.failures = {"fetch"}]
       [] s = "display" ->
            \* what the map shows
            [NoInputs EXCEPT
               !.controls = {"showVisited", "showCostHeatmap", "clearPath", "clearPoints"},
               !.basemaps = basemapOptions,
               !.views = {SquareView},
               !.placements = {"start"},
               !.clicks = {Pt(7, 7)}]]

Uses == Sessions[app.session]

\* no handler starts while a continuation of runAlgorithm is due: the
\* continuation of a settled promise runs before the next event
Ready == IF app.inflight = Null THEN TRUE ELSE app.inflight[1].settled = "no"

\* no rasterization is in progress between two handlers of the App
InitApp ==
  /\ params = [cellSizeM |-> DEFAULT_RESOLUTION_M, bounds |-> Bounds(0, 0, 0, 0), zones |-> <<>>,
               costZoneTypes |-> CostZoneTypes, avoidHighMultiplier |-> FALSE,
               rolloffDistanceM |-> DEFAULT_ROLLOFF_DISTANCE_M, roundedBelow |-> {}]
  /\ pc = "idle"
  /\ zi = 1
  /\ blocked = <<>> /\ costMultiplier = <<>> /\ costZoneMask = <<>>
  /\ rolloffSum = <<>> /\ rolloffCount = <<>>
  /\ env = NoEnv
  /\ call = NoCall
  /\ app \in {[InitialApp EXCEPT !.session = s] : s \in SessionNames}

\* the basemap select (1263)
SelectBasemap ==
  /\ Ready
  /\ \E b \in Uses.basemaps \ {app.basemap} : app' = [Quiet(app) EXCEPT !.basemap = b]
  /\ UNCHANGED parked

\* the file input's onChange up to `await file.text()` (1298-1303)
ChooseFile ==
  /\ Ready
  /\ Len(app.loads) < MaxLoads
  /\ \E i \in Uses.files : app' = [Quiet(app) EXCEPT !.loads = Append(@, i)]
  /\ UNCHANGED parked

\* file.text() has resolved: from JSON.parse to the last setter, or to the
\* alert (1304-1334)
LoadFile ==
  /\ Ready
  /\ \E k \in DOMAIN app.loads :
       LET file == MapFiles[app.loads[k]]
           a == [Quiet(app) EXCEPT !.loads = RemoveFetch(@, k), !.loaded = Some(file)]
           next == parseMapState(file)
       IN  app' = IF file = NotJson THEN [a EXCEPT !.alert = "Failed to load map state."]
                  ELSE IF next = Null THEN [a EXCEPT !.alert = "Invalid map state file."]
                  ELSE Effects(app, Applied(a, next[1]), TRUE)
  /\ UNCHANGED parked

\* the resolution slider (1348)
SetResolutionM ==
  /\ Ready
  /\ \E r \in Uses.resolutions \ {app.resolutionM} :
       app' = Effects(app, [Quiet(app) EXCEPT !.resolutionM = r], FALSE)
  /\ UNCHANGED parked

\* the button "Set planning area to current view" (1358-1360); setting the
\* object planningBounds already is changes nothing
SetPlanningBounds ==
  /\ Ready
  /\ "planningArea" \in Uses.controls
  /\ app' = IF app.currentViewBounds = JNull \/ app.planningIsView THEN Quiet(app)
            ELSE Effects(app, [Quiet(app) EXCEPT !.planningBounds = app.currentViewBounds,
                                                 !.planningIsView = TRUE], TRUE)
  /\ UNCHANGED parked

\* the drawing mode select (1374-1381): NO_FLY or one of the cost types
SetDrawMode ==
  /\ Ready
  /\ "drawMode" \in Uses.controls
  /\ \E value \in ({"NO_FLY"} \cup {app.costZoneTypes[k].id : k \in DOMAIN app.costZoneTypes \cap Uses.rows})
                     \ {drawSelection(app)} :
       app' = Effects(app, [Quiet(app) EXCEPT !.drawMode =
                              IF value = "NO_FLY" THEN [kind |-> "NO_FLY"]
                              ELSE [kind |-> "COST", costTypeId |-> value]], FALSE)
  /\ UNCHANGED parked

\* the no-fly buffer slider (1401)
SetNoFlyBuffer ==
  /\ Ready
  /\ \E d \in Uses.buffers \ {app.noFlyBufferM} :
       app' = Effects(app, [Quiet(app) EXCEPT !.noFlyBufferM = d], FALSE)
  /\ UNCHANGED parked

\* the colour button of a cost type (1422-1424)
ToggleColorPicker ==
  /\ Ready
  /\ Uses.colors # {}
  /\ \E k \in DOMAIN app.costZoneTypes \cap Uses.rows :
       app' = [Quiet(app) EXCEPT !.activeColorPickerId =
                 IF @ = Some(app.costZoneTypes[k].id) THEN Null ELSE Some(app.costZoneTypes[k].id)]
  /\ UNCHANGED parked

\* a colour of the open picker (1435-1442)
SetTypeColor ==
  /\ Ready
  /\ app.activeColorPickerId # Null
  /\ \E k \in DOMAIN app.costZoneTypes : app.costZoneTypes[k].id = app.activeColorPickerId[1]
  /\ \E c \in Uses.colors :
       LET recolor(entry) == [entry EXCEPT !.color = c]
       IN  app' = Effects(app, [Quiet(app) EXCEPT
                                  !.costZoneTypes = WithEntry(@, app.activeColorPickerId[1], recolor),
                                  !.activeColorPickerId = Null], FALSE)
  /\ UNCHANGED parked

\* the name input of a cost type (1451-1456)
SetTypeName ==
  /\ Ready
  /\ \E k \in DOMAIN app.costZoneTypes \cap Uses.rows : \E name \in Uses.typeNames :
       LET rename(entry) == [entry EXCEPT !.name = name]
       IN  app' = Effects(app, [Quiet(app) EXCEPT
                                  !.costZoneTypes = WithEntry(@, app.costZoneTypes[k].id, rename)],
                          FALSE)
  /\ UNCHANGED parked

\* the multiplier input of a cost type (1464-1469); v is
\* parseFloat(e.target.value)
SetTypeMultiplier ==
  /\ Ready
  /\ \E k \in DOMAIN app.costZoneTypes \cap Uses.rows : \E v \in Uses.multipliers :
       LET reweigh(entry) == [entry EXCEPT !.multiplier = clamp(v, Rat(1, 10), RInt(50))]
       IN  app' = Effects(app, [Quiet(app) EXCEPT
                                  !.costZoneTypes = WithEntry(@, app.costZoneTypes[k].id, reweigh)],
                          FALSE)
  /\ UNCHANGED parked

\* the delete button of a cost type (1480-1487), disabled while zones use
\* the type or it is the only one
DeleteCostType ==
  /\ Ready
  /\ "deleteType" \in Uses.controls
  /\ \E k \in DOMAIN app.costZoneTypes \cap Uses.rows :
       LET id == app.costZoneTypes[k].id
       IN  /\ ~(usageCount(app, id) > 0 \/ Len(app.costZoneTypes) <= 1)
           /\ app' = Effects(app,
                       [Quiet(app) EXCEPT
                          !.costZoneTypes = SelectSeq(@, LAMBDA entry : entry.id # id),
                          !.drawMode = IF @.kind = "COST" /\ @.costTypeId = id
                                       THEN [kind |-> "NO_FLY"] ELSE @],
                       FALSE)
  /\ UNCHANGED parked

\* the name input of the new cost type (1501)
SetNewCostTypeName ==
  /\ Ready
  /\ \E name \in Uses.newNames \ {app.newCostTypeName} :
       app' = [Quiet(app) EXCEPT !.newCostTypeName = name]
  /\ UNCHANGED parked

\* the multiplier input of the new cost type (1509-1512)
SetNewCostTypeMultiplier ==
  /\ Ready
  /\ \E value \in Uses.newMultipliers :
       app' = [Quiet(app) EXCEPT !.newCostTypeMultiplier =
                 IF IsFinite(value) THEN value ELSE Rat(1, 10)]
  /\ UNCHANGED parked

\* the button "+" (1517-1525)
AddCostType ==
  /\ Ready
  /\ Uses.newNames # {}
  /\ Len(app.costZoneTypes) < MaxCostTypes
  /\ LET name == trim(app.newCostTypeName)
         id == IF \E k \in DOMAIN app.costZoneTypes : app.costZoneTypes[k].id = slug(name)
               THEN nextCandidate(slug(name), 2, app.costZoneTypes)
               ELSE slug(name)
     IN  app' = IF name = "" THEN Quiet(app)
                ELSE Effects(app,
                       [Quiet(app) EXCEPT
                          !.costZoneTypes =
                             Append(@, [id |-> id, name |-> name,
                                        multiplier |-> clamp(app.newCostTypeMultiplier,
                                                             Rat(1, 10), RInt(50)),
                                        color |-> pickNextCostTypeColor(app.costZoneTypes)]),
                          !.newCostTypeName = ""],
                       FALSE)
  /\ UNCHANGED parked

\* the rolloff checkbox (1536): the memo depends on it, the clearing effect
\* does not
SetAvoidHighMultiplier ==
  /\ Ready
  /\ "avoid" \in Uses.controls
  /\ app' = Effects(app, [Quiet(app) EXCEPT !.avoidHighMultiplier = ~@], FALSE)
  /\ UNCHANGED parked

\* the rolloff strength slider (1548), disabled unless avoidHighMultiplier
SetRolloffStrength ==
  /\ Ready
  /\ app.avoidHighMultiplier
  /\ \E v \in Uses.strengths \ {app.rolloffStrength} :
       app' = Effects(app, [Quiet(app) EXCEPT !.rolloffStrength = v], FALSE)
  /\ UNCHANGED parked

\* the rolloff distance slider (1559), disabled unless avoidHighMultiplier
SetRolloffDistanceM ==
  /\ Ready
  /\ app.avoidHighMultiplier
  /\ \E d \in Uses.distances : /\ RInt(d) # app.rolloffDistanceM
                               /\ app' = Effects(app, [Quiet(app) EXCEPT !.rolloffDistanceM = RInt(d)],
                                                 FALSE)
  /\ UNCHANGED parked

\* the two placement buttons (1582-1583)
SetPlacementMode ==
  /\ Ready
  /\ \E m \in Uses.placements : app' = [Quiet(app) EXCEPT !.placementMode = m]
  /\ UNCHANGED parked

\* the button "Clear points" (1587-1591)
ClearPoints ==
  /\ Ready
  /\ "clearPoints" \in Uses.controls
  /\ app' = [Quiet(app) EXCEPT !.start = JNull, !.goal = JNull, !.runResult = Null]
  /\ UNCHANGED parked

\* the algorithm select (1605): one of its options is chosen
SetAlgorithmId ==
  /\ Ready
  /\ "algorithm" \in Uses.controls
  /\ \E id \in IdsOf(app.algorithms) \ {app.algorithmId} :
       app' = [Quiet(app) EXCEPT !.algorithmId = id]
  /\ UNCHANGED parked

\* the button "Refresh algorithms" (1615), disabled while isRunning:
\* reloadAlgorithms up to `await fetchAlgorithms()` (965-968)
RefreshAlgorithms ==
  /\ Ready
  /\ "refresh" \in Uses.controls
  /\ ~app.isRunning
  /\ Len(app.fetches) < MaxFetches
  /\ app' = [Quiet(app) EXCEPT !.algoError = FALSE, !.fetches = Append(@, app.algorithmId)]
  /\ UNCHANGED parked

\* fetchAlgorithms has resolved with the list of the backend (969-975); the
\* algorithmId compared is the one of the render reloadAlgorithms was
\* called in
AlgorithmsListed ==
  /\ Ready
  /\ \E k \in DOMAIN app.fetches : \E list \in Uses.lists :
       app' = [Quiet(app) EXCEPT
                 !.algorithms = list,
                 !.algorithmId =
                    IF Len(list) = 0 THEN ""
                    ELSE IF app.fetches[k] \notin IdsOf(list) THEN list[1]
                    ELSE @,
                 !.fetches = RemoveFetch(@, k)]
  /\ UNCHANGED parked

\* fetchAlgorithms has rejected: the catch branch (976-982)
AlgorithmsUnreachable ==
  /\ Ready
  /\ "fetch" \in Uses.failures
  /\ \E k \in DOMAIN app.fetches :
       app' = [Quiet(app) EXCEPT !.algoError = TRUE, !.algorithms = <<>>, !.algorithmId = "",
                                 !.fetches = RemoveFetch(@, k)]
  /\ UNCHANGED parked

\* a click on Run (1622-1623) in a render whose raster memo is memo
RunClicked(memo) ==
  /\ RunButtonEnabled(app, memo)
  /\ app' = runAlgorithm(Quiet(app), memo)

RunAlgorithm ==
  /\ Ready
  /\ "run" \in Uses.controls
  /\ RunClicked(RasterMemo(app))
  /\ UNCHANGED parked

\* the fetch of the run request (api/types.ts 56-67) resolves or rejects;
\* nothing makes it do either
RequestSettles ==
  /\ app.inflight # Null
  /\ app.inflight[1].settled = "no"
  /\ \E outcome \in {"resolved", "rejected"} :
       /\ outcome = "rejected" => "run" \in Uses.failures
       /\ app' = [app EXCEPT !.inflight[1].settled = outcome]
  /\ UNCHANGED parked

\* runAlgorithm after its await, the request resolved (1164-1176, 1180):
\* the response is a path of cell ids of the problem that was sent, from its
\* start to its goal; the run result remembers that problem
RunResolved ==
  /\ app.inflight # Null
  /\ app.inflight[1].settled = "resolved"
  /\ LET req == app.inflight[1]
     IN  app' = [Quiet(app) EXCEPT
                   !.runResult = Some([algo |-> req.algorithm_id,
                                       path |-> <<req.problem.start, req.problem.goal>>,
                                       problem |-> req.problem]),
                   !.isRunning = FALSE, !.inflight = Null]
  /\ UNCHANGED parked

\* runAlgorithm after its await without the finally block
RunRejected_NoFinally ==
  /\ app.inflight # Null
  /\ app.inflight[1].settled = "rejected"
  /\ app' = [Quiet(app) EXCEPT !.alert = "Failed to run algorithm.", !.inflight = Null]
  /\ UNCHANGED parked

\* runAlgorithm after its await, the request rejected (1177-1181)
RunRejected ==
  /\ app.inflight # Null
  /\ app.inflight[1].settled = "rejected"
  /\ app' = [Quiet(app) EXCEPT !.alert = "Failed to run algorithm.",
                               !.isRunning = FALSE, !.inflight = Null]
  /\ UNCHANGED parked

\* the button "Clear path" (1627)
ClearPath ==
  /\ Ready
  /\ "clearPath" \in Uses.controls
  /\ app' = [Quiet(app) EXCEPT !.runResult = Null]
  /\ UNCHANGED parked

\* the checkbox "Show explored nodes" (1634)
SetShowVisited ==
  /\ Ready
  /\ "showVisited" \in Uses.controls
  /\ app' = [Quiet(app) EXCEPT !.showVisited = ~@]
  /\ UNCHANGED parked

\* the checkbox "Show cost heatmap" (1643)
SetShowCostHeatmap ==
  /\ Ready
  /\ "showCostHeatmap" \in Uses.controls
  /\ app' = [Quiet(app) EXCEPT !.showCostHeatmap = ~@]
  /\ UNCHANGED parked

(***************************************************************************)
(* The renders whose zone handlers the drawing controls may hold.          *)
(* DrawControls.tsx registers the handlers of its props in an effect on    *)
(* [map, featureGroup, mode.zoneType, mode.multiplier] (22-185) and calls  *)
(* them from the draw events (125-155).  The mode this App passes is       *)
(* {kind, costType} (1678): it has neither field, the effect runs once,    *)
(* when the map mounts, and the controls hold the handlers of that render, *)
(* which read its noFlyBufferM, drawMode and costZoneTypes (the useState   *)
(* defaults, 887-927).  That file types the mode as {zoneType, multiplier},*)
(* the mode of App.tsx, so the controls built with this App are not in the *)
(* source; controls that register the handlers again when the drawing mode *)
(* or the buffer is set hold those of the latest render.  A zone event     *)
(* calls the handlers of either render.  setZones((prev) => ...) gets the  *)
(* zones of the state in both.                                             *)
(***************************************************************************)
ZoneHandlers(a) ==
  {a, [a EXCEPT !.noFlyBufferM = InitialApp.noFlyBufferM,
                !.drawMode = InitialApp.drawMode,
                !.costZoneTypes = InitialApp.costZoneTypes]}

\* onZoneCreated (1059-1087): a shape was drawn and got the next zone id
onZoneCreated ==
  /\ Ready
  /\ app.drawn < MaxDrawn
  /\ \E h \in ZoneHandlers(app) : \E ring \in Uses.shapes :
       LET zoneId == "d" \o DecimalString(app.drawn + 1)
           shape == RawFeature("Polygon", ring)
           a == [Quiet(app) EXCEPT !.drawn = @ + 1]
           costType == IF selectedCostType(h) # Null THEN selectedCostType(h)
                       ELSE IF Len(h.costZoneTypes) > 0 THEN Some(h.costZoneTypes[1])
                       ELSE Null
       IN  app' =
             IF h.drawMode.kind = "NO_FLY"
             THEN Effects(app,
                    [a EXCEPT !.zones =
                       Append(@, [id |-> zoneId,
                                  name |-> "No-fly " \o DecimalString(CountOfType(app.zones, "NO_FLY") + 1),
                                  type |-> "NO_FLY", shape |-> shape,
                                  buffered |-> bufferShape(shape, h.noFlyBufferM)])],
                    TRUE)
             ELSE IF costType = Null THEN a
             ELSE Effects(app,
                    [a EXCEPT !.zones =
                       Append(@, [id |-> zoneId,
                                  name |-> costType[1].name \o " "
                                             \o DecimalString(usageCount(app, costType[1].id) + 1),
                                  type |-> "COST", costTypeId |-> costType[1].id,
                                  shape |-> shape])],
                    TRUE)
  /\ UNCHANGED parked

\* onZoneEdited (1089-1100): the shape of a zone on the map was changed
onZoneEdited ==
  /\ Ready
  /\ \E h \in ZoneHandlers(app) : \E i \in DOMAIN app.zones : \E ring \in Uses.shapes :
       LET shape == RawFeature("Polygon", ring)
       IN  app' = Effects(app,
                    [Quiet(app) EXCEPT !.zones =
                       [k \in DOMAIN app.zones |->
                          IF app.zones[k].id # app.zones[i].id THEN app.zones[k]
                          ELSE IF app.zones[k].type = "NO_FLY"
                               THEN [app.zones[k] EXCEPT
                                       !.shape = shape,
                                       !.buffered = bufferShape(shape, h.noFlyBufferM)]
                               ELSE [app.zones[k] EXCEPT !.shape = shape]]],
                    TRUE)
  /\ UNCHANGED parked

\* onZoneDeleted (1102-1104): a zone on the map was removed
onZoneDeleted ==
  /\ Ready
  /\ Uses.shapes # {}
  /\ \E i \in DOMAIN app.zones :
       app' = Effects(app,
                [Quiet(app) EXCEPT !.zones = SelectSeq(@, LAMBDA z : z.id # app.zones[i].id)],
                TRUE)
  /\ UNCHANGED parked

\* a click on the map (MapView.tsx 208-218): onSetStart or onSetGoal, then
\* onClearPlacementMode (1686-1688)
onClickLatLng ==
  /\ Ready
  /\ \E q \in Uses.clicks :
       app' = IF app.placementMode = "start"
              THEN [Quiet(app) EXCEPT !.start = RawPoint(q[2], q[1]), !.placementMode = "null"]
              ELSE IF app.placementMode = "goal"
              THEN [Quiet(app) EXCEPT !.goal = RawPoint(q[2], q[1]), !.placementMode = "null"]
              ELSE Quiet(app)
  /\ UNCHANGED parked

\* onViewBounds (1691): the map was made or moved (MapView.tsx 165-185); b
\* is a new object every time
onViewBounds ==
  /\ Ready
  /\ \E b \in Uses.views :
       app' = Effects(app, [Quiet(app) EXCEPT !.currentViewBounds = b, !.planningIsView = FALSE],
                      FALSE)
  /\ UNCHANGED parked

NextApp ==
  \/ SelectBasemap
  \/ ChooseFile
  \/ LoadFile
  \/ SetResolutionM
  \/ SetPlanningBounds
  \/ SetDrawMode
  \/ SetNoFlyBuffer
  \/ ToggleColorPicker
  \/ SetTypeColor
  \/ SetTypeName
  \/ SetTypeMultiplier
  \/ DeleteCostType
  \/ SetNewCostTypeName
  \/ SetNewCostTypeMultiplier
  \/ AddCostType
  \/ SetAvoidHighMultiplier
  \/ SetRolloffStrength
  \/ SetRolloffDistanceM
  \/ SetPlacementMode
  \/ ClearPoints
  \/ SetAlgorithmId
  \/ RefreshAlgorithms
  \/ AlgorithmsListed
  \/ AlgorithmsUnreachable
  \/ RunAlgorithm
  \/ RequestSettles
  \/ RunResolved
  \/ RunRejected
  \/ ClearPath
  \/ SetShowVisited
  \/ SetShowCostHeatmap
  \/ onZoneCreated
  \/ onZoneEdited
  \/ onZoneDeleted
  \/ onClickLatLng
  \/ onViewBounds

SpecApp == InitApp /\ [][NextApp]_vars

\* runAlgorithm continues once its request has settled: the continuation of
\* a settled promise is a microtask and runs.  That the request settles is
\* not assumed: its fetch has no timeout.
SpecAppLive == InitApp /\ [][NextApp]_vars /\ WF_vars(RunResolved \/ RunRejected)

NoFlyIndices(zs) == {i \in 1..Len(zs) : zs[i].type = "NO_FLY"}
CostIndices(zs) == {i \in 1..Len(zs) : zs[i].type = "COST"}

BlockedCells(b) == {id \in DOMAIN b : b[id] = 1}

\* the zones of the list whose polygon contains the centre of cell id
Covering(p, id, I) == {i \in I : CenterInside(p, id, p.zones[i].polys)}

\* product of the multipliers of the COST zones at the indices in I
RECURSIVE MultiplierProduct(_, _)
MultiplierProduct(p, I) ==
  IF I = {} THEN ROne
  ELSE LET i == CHOOSE j \in I : TRUE
       IN  RMul(ZoneMultiplier(p, p.zones[i]), MultiplierProduct(p, I \ {i}))

(***************************************************************************)
(* C1 (as stated): blocked and costMultiplier are the same arrays for      *)
(* every permutation of the zones list.                                    *)
(***************************************************************************)
C1_OrderIndependentArrays ==
  Done => \A zs \in Reorderings(params.zones) :
            LET r == Rasterize(WithZones(params, zs))
            IN  r.blocked = env.blocked /\ r.costMultiplier = env.costMultiplier

(***************************************************************************)
(* C1 (amended): for every permutation of the zones list the blocked array *)
(* is the same and costMultiplier is the same at every cell that is not    *)
(* blocked.                                                                *)
(***************************************************************************)
C1_OrderIndependentOpenCells ==
  Done => \A zs \in Reorderings(params.zones) :
            LET r == Rasterize(WithZones(params, zs))
            IN  /\ r.blocked = env.blocked
                /\ \A id \in Ids(params) :
                     env.blocked[id] # 1 => r.costMultiplier[id] = env.costMultiplier[id]

\* a NO_FLY zone and a COST zone overlap, rolloff has run, and the zones
\* left a multiplier both on a blocked and on an open cell
C1_Witness ==
  /\ Done
  /\ RolloffEnabled(params)
  /\ NoFlyIndices(params.zones) # {} /\ CostIndices(params.zones) # {}
  /\ \E id \in Ids(params) : env.blocked[id] = 1 /\ env.costMultiplier[id] # ROne
  /\ \E id \in Ids(params) : env.blocked[id] # 1 /\ env.costMultiplier[id] # ROne

(***************************************************************************)
(* C2: taking NO_FLY zones away from the zone list never blocks a cell     *)
(* that was open: every cell blocked for the smaller list is blocked for   *)
(* the full list, on the same bounds and cell size.                        *)
(***************************************************************************)
C2_BlockingMonotone ==
  Done => \A S \in SUBSET NoFlyIndices(params.zones) :
            BlockedCells(Rasterize(WithZones(params, Without(params.zones, S, 1))).blocked)
              \subseteq BlockedCells(env.blocked)

\* an added NO_FLY zone blocked more cells than the list without it, which
\* blocks some cell itself
C2_Witness ==
  /\ Done
  /\ \E i \in NoFlyIndices(params.zones) :
       LET less == BlockedCells(Rasterize(WithZones(params, Without(params.zones, {i}, 1))).blocked)
       IN  less # {} /\ less # BlockedCells(env.blocked)

(***************************************************************************)
(* C3: a cell is blocked exactly when its centre lies inside the polygon   *)
(* of at least one NO_FLY zone (outer ring, no hole).                      *)
(***************************************************************************)
C3_PointSampling ==
  Done => \A id \in Ids(params) :
            (env.blocked[id] = 1) <=> (Covering(params, id, NoFlyIndices(params.zones)) # {})

\* a NO_FLY polygon with a hole blocked some cell and left a cell of its
\* bounding box open
C3_Witness ==
  /\ Done
  /\ \E i \in NoFlyIndices(params.zones) :
       /\ Len(params.zones[i].polys[1]) > 1
       /\ \E id \in Ids(params) : env.blocked[id] = 1
       /\ \E id \in Ids(params) :
            /\ env.blocked[id] # 1
            /\ InScan(params, ScanRange(params, mercatorBbox(params.zones[i].polys), 0), id)

(***************************************************************************)
(* C4: with rolloff disabled the multiplier of every cell that is not      *)
(* blocked is the product of the multipliers of the COST zones containing  *)
(* its centre (1 when there is none).                                      *)
(***************************************************************************)
C4_MultiplicativeComposition ==
  (Done /\ ~RolloffEnabled(params)) =>
     \A id \in Ids(params) :
        env.blocked[id] # 1 =>
           env.costMultiplier[id] =
              MultiplierProduct(params, Covering(params, id, CostIndices(params.zones)))

\* zones with multipliers 2 and 3 overlap on an open cell, which has 6
C4_Witness ==
  /\ Done /\ ~RolloffEnabled(params)
  /\ \E id \in Ids(params) :
       /\ env.blocked[id] # 1
       /\ env.costMultiplier[id] = RInt(6)
       /\ {ZoneMultiplier(params, params.zones[i]) :
             i \in Covering(params, id, CostIndices(params.zones))} = {RInt(2), RInt(3)}

(***************************************************************************)
(* C5: a cell covered by at least one COST zone, all of whose covering     *)
(* COST zones have a multiplier >= 1, ends with costMultiplier >= 1, with  *)
(* or without the rolloff pass.                                            *)
(***************************************************************************)
C5_DiscouragedAtLeastOne ==
  Done => \A id \in Ids(params) :
            LET cov == Covering(params, id, CostIndices(params.zones))
            IN  (cov # {} /\ \A i \in cov : RLeq(ROne, ZoneMultiplier(params, params.zones[i])))
                  => RLeq(ROne, env.costMultiplier[id])

\* rolloff has run; one covered cell has a multiplier above 1 while an
\* encouraging zone pulled another cell below 1
C5_Witness ==
  /\ Done /\ RolloffEnabled(params)
  /\ \E id \in Ids(params) :
       LET cov == Covering(params, id, CostIndices(params.zones))
       IN  /\ cov # {}
           /\ \A i \in cov : RLeq(ROne, ZoneMultiplier(params, params.zones[i]))
           /\ RLess(ROne, env.costMultiplier[id])
  /\ \E id \in Ids(params) : RLess(env.costMultiplier[id], ROne)

(***************************************************************************)
(* C6: every neighbour neighbors8 returns for a cell of the grid is a cell *)
(* of the grid, is not blocked, and is at most one column and one row away *)
(* from the cell.                                                          *)
(***************************************************************************)
C6_NeighborsValid ==
  (Done /\ call.op = "neighbors8") =>
     \A k \in 1..Len(call.result) :
        LET nid == call.result[k].id
        IN  /\ nid \in 0..(env.width * env.height - 1)
            /\ env.blocked[nid] # 1
            /\ Abs((nid % env.width) - (call.id % env.width)) <= 1
            /\ Abs((nid \div env.width) - (call.id \div env.width)) <= 1

\* a cell in the last column, next to a blocked cell, has neighbours
C6_Witness ==
  /\ Done /\ call.op = "neighbors8"
  /\ call.id % env.width = env.width - 1
  /\ call.id + env.width \in DOMAIN env.blocked
  /\ call.id - 1 \in BlockedCells(env.blocked)
  /\ Len(call.result) > 0

(***************************************************************************)
(* C7: on a grid without blocked cells neighbors8 of an interior cell      *)
(* returns 8 distinct entries: the 4 orthogonal neighbours with the step   *)
(* distance cellSizeM and the 4 diagonal ones with cellSizeM * sqrt(2).    *)
(***************************************************************************)
Interior(e, id) ==
  /\ id % e.width > 0 /\ id % e.width < e.width - 1
  /\ id \div e.width > 0 /\ id \div e.width < e.height - 1

ExpectedNeighbors(e, id) ==
  {[id |-> id + d[2] * e.width + d[1],
    stepDistanceM |-> IF d[1] = 0 \/ d[2] = 0
                      THEN Dist(RInt(e.cellSizeM), RZero)
                      ELSE Dist(RZero, RInt(e.cellSizeM))] :
     d \in ({-1, 0, 1} \X {-1, 0, 1}) \ {<<0, 0>>}}

C7_InteriorEightNeighbors ==
  (Done /\ call.op = "neighbors8" /\ BlockedCells(env.blocked) = {} /\ Interior(env, call.id)) =>
     /\ Len(call.result) = 8
     /\ Cardinality({call.result[k].id : k \in 1..8}) = 8
     /\ {call.result[k] : k \in 1..8} = ExpectedNeighbors(env, call.id)

C7_Witness ==
  /\ Done /\ call.op = "neighbors8"
  /\ BlockedCells(env.blocked) = {}
  /\ Interior(env, call.id)
  /\ Len(call.result) = 8

(***************************************************************************)
(* C8 (as stated): worldToCell returns null exactly for the points outside *)
(* [minX, maxX) x [minY, maxY), and the id of the containing cell for the  *)
(* points inside.                                                          *)
(***************************************************************************)
InRectangle(e, xM, yM) ==
  /\ e.bounds.minX <= xM /\ xM < e.bounds.maxX
  /\ e.bounds.minY <= yM /\ yM < e.bounds.maxY

\* the grid covers [minX, minX + width*cellSizeM) x [minY, minY + height*cellSizeM)
InGridExtent(e, xM, yM) ==
  /\ e.bounds.minX <= xM /\ xM < e.bounds.minX + e.width * e.cellSizeM
  /\ e.bounds.minY <= yM /\ yM < e.bounds.minY + e.height * e.cellSizeM

CellContains(e, id, xM, yM) ==
  LET x0 == e.bounds.minX + (id % e.width) * e.cellSizeM
      y0 == e.bounds.minY + (id \div e.width) * e.cellSizeM
  IN  /\ id \in 0..(e.width * e.height - 1)
      /\ x0 <= xM /\ xM < x0 + e.cellSizeM
      /\ y0 <= yM /\ yM < y0 + e.cellSizeM

C8_NullOutsideRectangle ==
  (Done /\ call.op = "worldToCell") =>
     /\ (call.result = Null) <=> ~InRectangle(env, call.xM, call.yM)
     /\ InRectangle(env, call.xM, call.yM) =>
          (call.result # Null /\ CellContains(env, call.result[1], call.xM, call.yM))

(***************************************************************************)
(* C8 (amended): worldToCell returns null exactly for the points outside   *)
(* the grid extent [minX, minX + width*cellSizeM) x                        *)
(* [minY, minY + height*cellSizeM), which contains the planning rectangle, *)
(* and the id of the containing cell for every point inside the extent.    *)
(***************************************************************************)
C8_NullOutsideGrid ==
  (Done /\ call.op = "worldToCell") =>
     /\ (call.result = Null) <=> ~InGridExtent(env, call.xM, call.yM)
     /\ InRectangle(env, call.xM, call.yM) => InGridExtent(env, call.xM, call.yM)
     /\ InGridExtent(env, call.xM, call.yM) =>
          (call.result # Null /\ CellContains(env, call.result[1], call.xM, call.yM))

\* a point at or beyond maxX, above the first row, is given a cell
C8_Witness ==
  /\ Done /\ call.op = "worldToCell"
  /\ call.xM >= env.bounds.maxX
  /\ call.yM >= env.bounds.minY + env.cellSizeM
  /\ call.result # Null

(***************************************************************************)
(* C9: cellId and colRow are inverse to each other on the grid, and        *)
(* cellId(col, row) = row*width + col is an id of the grid.                *)
(***************************************************************************)
C9_CellIdColRowInverse ==
  /\ (Done /\ call.op = "cellId") =>
        /\ call.result = call.row * env.width + call.col
        /\ call.result \in 0..(env.width * env.height - 1)
        /\ colRow(env, call.result) = [col |-> call.col, row |-> call.row]
  /\ (Done /\ call.op = "colRow") =>
        /\ call.result.col \in 0..(env.width - 1)
        /\ call.result.row \in 0..(env.height - 1)
        /\ cellId(env, call.result.col, call.result.row) = call.id

\* colRow of a cell off the first row and column of a grid that is not square
C9_Witness ==
  /\ Done /\ call.op = "colRow"
  /\ env.width # env.height
  /\ call.result.col > 0 /\ call.result.row > 1

(***************************************************************************)
(* C10: the cost of a step is its distance times the multiplier of the     *)
(* cell it enters, whatever cell it leaves; with rolloff disabled that is  *)
(* the product of the multipliers of the COST zones covering the entered   *)
(* cell (3 under one multiplier-3 zone, 1 outside every zone).             *)
(***************************************************************************)
C10_StepCostOfDestination ==
  (Done /\ call.op = "stepCost") =>
     /\ call.result = DistTimes(call.stepDistanceM, env.costMultiplier[call.toId])
     /\ ~RolloffEnabled(params) =>
          call.result =
             DistTimes(call.stepDistanceM,
                       MultiplierProduct(params, Covering(params, call.toId, CostIndices(params.zones))))

\* a diagonal step from a cell outside every zone into a cell under one
\* multiplier-3 zone costs 3 * cellSizeM * sqrt(2)
C10_Witness ==
  /\ Done /\ call.op = "stepCost" /\ ~RolloffEnabled(params)
  /\ Covering(params, call.fromId, CostIndices(params.zones)) = {}
  /\ \E i \in CostIndices(params.zones) :
       /\ Covering(params, call.toId, CostIndices(params.zones)) = {i}
       /\ ZoneMultiplier(params, params.zones[i]) = RInt(3)
  /\ call.stepDistanceM = Dist(RZero, RInt(env.cellSizeM))
  /\ call.result = Dist(RZero, RInt(3 * env.cellSizeM))

(***************************************************************************)
(* C11: getCostMultiplier(id) returns the stored multiplier whenever that  *)
(* is a finite number >= 0, and 1 whenever nothing is stored at id (id     *)
(* outside the array) or the stored value is NaN or +Infinity.             *)
(***************************************************************************)
C11_StoredOrDefault ==
  (Done /\ call.op = "getCostMultiplier") =>
     LET stored == call.id \in DOMAIN env.costMultiplier
     IN  /\ (stored /\ IsFinite(env.costMultiplier[call.id])
                    /\ RLeq(RZero, env.costMultiplier[call.id]))
              => call.result = env.costMultiplier[call.id]
         /\ (~stored \/ ~IsFinite(env.costMultiplier[call.id])) => call.result = ROne

(***************************************************************************)
(* C12: for bounds with maxX >= minX, maxY >= minY and cellSizeM > 0 the   *)
(* grid has width = max(1, ceil((maxX - minX) / cellSizeM)) columns and    *)
(* height rows likewise, each at least 1 also for a rectangle without      *)
(* extent, and blocked and costMultiplier have exactly width * height      *)
(* entries, in the GridEnvironment as in the problem of a run request.     *)
(***************************************************************************)
\* n = max(1, ceil(span / cell)), said without division
IsCellsAlong(n, span, cell) ==
  /\ n >= 1
  /\ n * cell >= span
  /\ n = 1 \/ (n - 1) * cell < span

DenseOver(arr, width, height) == DOMAIN arr = 0..(width * height - 1)

\* the grid of a raster memo has the dimensions of its rectangle
WellFormedGrid(memo) ==
  memo.env # NoEnv =>
     LET e == memo.env
     IN  /\ e.bounds.maxX >= e.bounds.minX /\ e.bounds.maxY >= e.bounds.minY /\ e.cellSizeM > 0
         /\ IsCellsAlong(e.width, e.bounds.maxX - e.bounds.minX, e.cellSizeM)
         /\ IsCellsAlong(e.height, e.bounds.maxY - e.bounds.minY, e.cellSizeM)
         /\ DenseOver(e.blocked, e.width, e.height)
         /\ DenseOver(e.costMultiplier, e.width, e.height)
         /\ memo.cellCount = e.width * e.height

C12_GridDimensions ==
  /\ WellFormedGrid(RasterMemo(app))
  /\ app.inflight # Null =>
       LET pr == app.inflight[1].problem
       IN  /\ IsCellsAlong(pr.width, pr.bounds.maxX - pr.bounds.minX, pr.cell_size_m)
           /\ IsCellsAlong(pr.height, pr.bounds.maxY - pr.bounds.minY, pr.cell_size_m)
           /\ DenseOver(pr.blocked, pr.width, pr.height)
           /\ DenseOver(pr.cost_multiplier, pr.width, pr.height)

\* a run request is in flight for the one-cell grid of a planning
\* rectangle without extent
C12_Witness ==
  /\ app.inflight # Null
  /\ LET pr == app.inflight[1].problem
     IN  /\ pr.bounds.maxX = pr.bounds.minX /\ pr.bounds.maxY = pr.bounds.minY
         /\ pr.width = 1 /\ pr.height = 1
         /\ DOMAIN pr.blocked = {0}

(***************************************************************************)
(* C13: every run request carries start and goal cell ids within           *)
(* [0, width*height) whose blocked entries are 0; when the start or the    *)
(* goal point lies in no cell of the grid or in a blocked cell, Run sends  *)
(* no request and leaves runResult null.                                   *)
(***************************************************************************)
\* the point lies in no cell of the grid, or the cell it lies in is blocked
NoOpenCellAt(e, q) ==
  \A id \in 0..(e.width * e.height - 1) :
     CellContains(e, id, q[1], q[2]) => e.blocked[id] = 1

EndpointAlerts ==
  {"Start or goal is outside the planning area rectangle.",
   "Start is inside a no-fly region.", "Goal is inside a no-fly region."}

C13_RequestEndpointsOpen ==
  /\ app.inflight # Null =>
       LET pr == app.inflight[1].problem
       IN  /\ pr.start \in 0..(pr.width * pr.height - 1)
           /\ pr.goal \in 0..(pr.width * pr.height - 1)
           /\ pr.blocked[pr.start] = 0 /\ pr.blocked[pr.goal] = 0
  /\ LET memo == RasterMemo(app)
         next == runAlgorithm(app, memo)
     IN  (RunButtonEnabled(app, memo) /\ (\/ NoOpenCellAt(memo.env, PointOf(app.start))
                                          \/ NoOpenCellAt(memo.env, PointOf(app.goal)))) =>
            /\ next.inflight = Null
            /\ next.runResult = Null
            /\ next.alert \in EndpointAlerts
  /\ app.alert \in EndpointAlerts =>
       /\ app.inflight = Null /\ app.runResult = Null /\ ~app.isRunning
       /\ \/ NoOpenCellAt(RasterMemo(app).env, PointOf(app.start))
          \/ NoOpenCellAt(RasterMemo(app).env, PointOf(app.goal))

\* Run was clicked with the start in an open cell and the goal in a
\* blocked one
C13_Witness ==
  /\ app.alert = "Goal is inside a no-fly region."
  /\ ~NoOpenCellAt(RasterMemo(app).env, PointOf(app.start))
  /\ app.inflight = Null /\ app.runResult = Null

(***************************************************************************)
(* C14: rasterizeZonesToGrid is never invoked for a planning rectangle and *)
(* resolution of more than MAX_CELLS = 250,000 cells: for such inputs      *)
(* raster.env is null and raster.error is set, every grid the App holds or *)
(* has sent has at most MAX_CELLS cells, and Run starts no request.        *)
(***************************************************************************)
\* cells of the current planning rectangle at the current resolution,
\* counted from the spans
Oversized(a) ==
  /\ a.planningBounds # JNull
  /\ LET spanX == Abs(Get(a.planningBounds, "east").n - Get(a.planningBounds, "west").n)
         spanY == Abs(Get(a.planningBounds, "north").n - Get(a.planningBounds, "south").n)
     IN  \E w \in 1..(spanX + 1), h \in {Max(1, CeilDiv(spanY, a.resolutionM))} :
            /\ IsCellsAlong(w, spanX, a.resolutionM)
            /\ w * h > MAX_CELLS

C14_CellCapGuard ==
  /\ LET memo == RasterMemo(app)
     IN  /\ Oversized(app) =>
              /\ memo.env = NoEnv
              /\ memo.error # ""
              /\ memo.cellCount > MAX_CELLS
              /\ ~RunButtonEnabled(app, memo)
              /\ runAlgorithm(app, memo).inflight = app.inflight
         /\ memo.env # NoEnv =>
              /\ memo.env.width * memo.env.height <= MAX_CELLS
              /\ ~Oversized(app)
  /\ app.inflight # Null =>
       app.inflight[1].problem.width * app.inflight[1].problem.height <= MAX_CELLS

\* the planning area was set to one of more than MAX_CELLS cells while
\* start, goal and algorithm were ready for a run
C14_Witness ==
  /\ Oversized(app)
  /\ RasterMemo(app).env = NoEnv
  /\ app.start # JNull /\ app.goal # JNull /\ app.algorithmId # "" /\ ~app.isRunning

(***************************************************************************)
(* C15: a run result that is not null was computed on the grid the App     *)
(* currently holds in raster.env, whatever changes of the planning bounds, *)
(* the resolution or the zones happened, also while the request was in     *)
(* flight.                                                                 *)
(***************************************************************************)
ProblemOfGrid(pr, e) ==
  /\ pr.width = e.width /\ pr.height = e.height /\ pr.cell_size_m = e.cellSizeM
  /\ pr.bounds = e.bounds
  /\ pr.blocked = SerializeBlocked(e.blocked)
  /\ pr.cost_multiplier = SerializeCostMultiplier(e.costMultiplier)

C15_RunResultOnCurrentGrid ==
  app.runResult # Null =>
     /\ RasterMemo(app).env # NoEnv
     /\ ProblemOfGrid(app.runResult[1].problem, RasterMemo(app).env)

(***************************************************************************)
(* C16: where a single NO_FLY polygon covers the centres of all cells of   *)
(* column 5, every cell of column 5 is blocked, and a walk along           *)
(* neighbors8 that starts in a column below 5 stays in the columns below   *)
(* 5: it neither enters column 5 nor reaches a column beyond it.           *)
(***************************************************************************)
CoversColumn(p, col) ==
  /\ Len(p.zones) = 1 /\ p.zones[1].type = "NO_FLY"
  /\ col < Width(p)
  /\ \A row \in 0..(Height(p) - 1) :
        pointInAnyPolygon(CenterX(p, col), CenterY(p, row), p.zones[1].polys)

C16_ColumnSeparates ==
  (Done /\ CoversColumn(params, 5)) =>
     /\ \A id \in 0..(env.width * env.height - 1) : id % env.width = 5 => env.blocked[id] = 1
     /\ (call.op = "walk" /\ call.fromId % env.width < 5) => call.id % env.width < 5

\* a walk from the first column has arrived next to the blocked column 5,
\* in another row, on a grid with columns beyond it
C16_Witness ==
  /\ Done /\ CoversColumn(params, 5) /\ env.width > 6
  /\ call.op = "walk"
  /\ call.fromId % env.width = 0
  /\ call.id % env.width = 4
  /\ call.id \div env.width # call.fromId \div env.width

(***************************************************************************)
(* C17: on the 10 x 10 grid with cellSizeM = 10 and no zones every         *)
(* neighbors8 path from cell 0 to cell 99 costs at least 9 * 10 * sqrt(2), *)
(* and nine diagonal steps cost exactly that.                              *)
(***************************************************************************)
\* d.rat + d.root2 * sqrt(2) >= k * sqrt(2), for d.rat >= 0
GeqTimesRoot2(d, k) ==
  \/ RLeq(RInt(k), d.root2)
  \/ LET rest == RSub(RInt(k), d.root2)
     IN  RLeq(RMul(RInt(2), RMul(rest, rest)), RMul(d.rat, d.rat))

\* d.rat + d.root2 * sqrt(2) >= n, for d.rat, d.root2 >= 0
GeqInt(d, n) ==
  \/ RLeq(RInt(n), d.rat)
  \/ LET rest == RSub(RInt(n), d.rat)
     IN  RLeq(RMul(rest, rest), RMul(RInt(2), RMul(d.root2, d.root2)))

C17_DiagonalIsOptimal ==
  (Done /\ call.op = "path") =>
     /\ call.id = 99 => GeqTimesRoot2(call.cost, 9 * 10)
     /\ GeqInt(call.cost, call.steps * 10)
     /\ (MaxPathSteps * 10) * (MaxPathSteps * 10) > 2 * (9 * 10) * (9 * 10)

\* nine diagonal steps have led from cell 0 to cell 99 for 90 * sqrt(2)
C17_Witness ==
  /\ Done /\ call.op = "path"
  /\ call.id = 99 /\ call.steps = 9
  /\ call.cost = Dist(RZero, RInt(90))

(***************************************************************************)
(* C18: the rolloff pass leaves blocked as it is and changes               *)
(* costMultiplier at no cell that is blocked or whose centre lies inside   *)
(* some COST zone: there the result with rolloff enabled equals the result *)
(* of the same rasterization with rolloff disabled.                        *)
(***************************************************************************)
WithoutRolloff(p) == [p EXCEPT !.avoidHighMultiplier = FALSE]

C18_RolloffFrame ==
  (Done /\ RolloffEnabled(params)) =>
     LET off == Rasterize(WithoutRolloff(params))
     IN  /\ env.blocked = off.blocked
         /\ \A id \in Ids(params) :
              (env.blocked[id] = 1 \/ Covering(params, id, CostIndices(params.zones)) # {})
                 => env.costMultiplier[id] = off.costMultiplier[id]

\* the rolloff raised the multiplier of an open cell outside every COST
\* zone, while a cell inside a COST zone lies within the rolloff distance
\* of another zone of high cost
C18_Witness ==
  /\ Done /\ RolloffEnabled(params)
  /\ \E id \in Ids(params) :
       env.costMultiplier[id] # Rasterize(WithoutRolloff(params)).costMultiplier[id]
  /\ \E id \in Ids(params), i \in CostIndices(params.zones) :
       /\ env.blocked[id] # 1
       /\ Covering(params, id, CostIndices(params.zones)) # {}
       /\ i \notin Covering(params, id, CostIndices(params.zones))
       /\ RLess(ROne, ZoneMultiplier(params, params.zones[i]))
       /\ RLess(CenterDistance2(params, id, params.zones[i].polys),
                RInt(params.rolloffDistanceM * params.rolloffDistanceM))

(***************************************************************************)
(* C19: the rolloff pass runs only when avoidHighMultiplier is true and    *)
(* rolloffDistanceM > 0.  Otherwise the arrays returned are those of the   *)
(* exact pass and nothing is accumulated; COST zones with a multiplier     *)
(* <= 1 contribute no rolloff: a cell accumulates at most one factor per   *)
(* COST zone of multiplier > 1, and without such a zone the arrays are     *)
(* those of the exact pass.                                                *)
(***************************************************************************)
HighCostIndices(p) ==
  {i \in CostIndices(p.zones) : RLess(ROne, ZoneMultiplier(p, p.zones[i]))}

ExactOnly ==
  LET ex == ExactPass(params, InitArrays(params), params.zones, 1)
  IN  /\ env.blocked = ex.blocked
      /\ env.costMultiplier = ex.costMultiplier
      /\ \A id \in Ids(params) : rolloffCount[id] = 0 /\ rolloffSum[id] = RZero

C19_RolloffOnlyWhenEnabled ==
  Done =>
     /\ (~params.avoidHighMultiplier \/ params.rolloffDistanceM <= 0) => ExactOnly
     /\ HighCostIndices(params) = {} => ExactOnly
     /\ \A id \in Ids(params) : rolloffCount[id] <= Cardinality(HighCostIndices(params))

\* rolloff is switched off by its flag alone or by its distance alone, and
\* the same zones with rolloff enabled at distance 3 give other multipliers
C19_Witness ==
  /\ Done
  /\ params.avoidHighMultiplier # (params.rolloffDistanceM > 0)
  /\ HighCostIndices(params) # {}
  /\ Rasterize([params EXCEPT !.avoidHighMultiplier = TRUE, !.rolloffDistanceM = 3]).costMultiplier
       # env.costMultiplier

(***************************************************************************)
(* C20: the geometry functions are total.  A geometry without edges (no    *)
(* polygon, no ring, rings of fewer than 2 points) contains no point and   *)
(* is at distance +Infinity from every point; each pass of a rasterization *)
(* over a zone yields arrays over every cell, and the arrays returned are  *)
(* those of the list without the zones of such geometry.                   *)
(***************************************************************************)
Edgeless(polys) ==
  \A q \in DOMAIN polys : \A r \in DOMAIN polys[q] : Len(polys[q][r]) < 2

WithEdges(z) == ~Edgeless(z.polys)

\* the pass over the next zone yields arrays over every cell
StepDefined ==
  /\ (pc = "exact" /\ zi <= Len(params.zones)) =>
        LET st == ExactZone(params, Arrays, params.zones[zi])
        IN  /\ st.blocked \in [Ids(params) -> {0, 1}]
            /\ st.costZoneMask \in [Ids(params) -> {0, 1}]
            /\ DOMAIN st.costMultiplier = Ids(params)
            /\ \A id \in Ids(params) : IsFinite(st.costMultiplier[id])
  /\ (pc = "rolloff" /\ zi <= Len(HighCostZones(params))) =>
        LET acc == RolloffZone(params, Arrays, Accum, HighCostZones(params)[zi])
        IN  /\ acc.rolloffCount \in [Ids(params) -> Nat]
            /\ DOMAIN acc.rolloffSum = Ids(params)
            /\ \A id \in Ids(params) : IsFinite(acc.rolloffSum[id])

C20_EdgelessGeometry ==
  /\ StepDefined
  /\ \A i \in DOMAIN params.zones :
       Edgeless(params.zones[i].polys) =>
          /\ mercatorBbox(params.zones[i].polys).empty = (AllPoints(params.zones[i].polys) = {})
          /\ \A id \in Ids(params) :
               /\ ~CenterInside(params, id, params.zones[i].polys)
               /\ CenterDistance2(params, id, params.zones[i].polys) = Infinity
  /\ Done =>
       LET rest == Rasterize(WithZones(params, SelectSeq(params.zones, WithEdges)))
       IN  /\ env.blocked = rest.blocked
           /\ env.costMultiplier = rest.costMultiplier

\* a rasterization with rolloff has returned for a list that has a COST
\* zone of multiplier 3 whose only ring is one point at a cell centre
C20_Witness ==
  /\ Done
  /\ RolloffEnabled(params)
  /\ \E i \in DOMAIN params.zones :
       /\ params.zones[i] = Cost("x3", OnePointPolys)
       /\ \E id \in Ids(params) :
            /\ CenterX(params, ColOf(params, id)) = 3
            /\ CenterY(params, RowOf(params, id)) = 3
            /\ env.blocked[id] = 0

(***************************************************************************)
(* C22: blocked is final within one rasterization.  No step resets a       *)
(* blocked[id] that is 1, and no step (a later COST zone of the exact      *)
(* pass, the rolloff pass) changes the costMultiplier of such a cell.      *)
(***************************************************************************)
C22_BlockedIsFinal ==
  [][\A id \in Ids(params) :
       blocked[id] = 1 => (blocked'[id] = 1 /\ costMultiplier'[id] = costMultiplier[id])]_vars

\* a rasterization with rolloff has returned; a cell blocked by the first
\* zone lies inside the second zone, a COST zone of multiplier > 1, and
\* another blocked cell lies outside it within the rolloff distance
C22_Witness ==
  /\ Done
  /\ RolloffEnabled(params)
  /\ Len(params.zones) = 2
  /\ params.zones[1].type = "NO_FLY"
  /\ params.zones[2].type = "COST"
  /\ RLess(ROne, ZoneMultiplier(params, params.zones[2]))
  /\ \E id \in Ids(params) :
       /\ env.blocked[id] = 1
       /\ InScan(params, ScanRange(params, mercatorBbox(params.zones[2].polys), 0), id)
       /\ CenterInside(params, id, params.zones[2].polys)
  /\ \E id \in Ids(params) :
       /\ env.blocked[id] = 1
       /\ ~CenterInside(params, id, params.zones[2].polys)
       /\ ~RLess(RInt(params.rolloffDistanceM * params.rolloffDistanceM),
                 CenterDistance2(params, id, params.zones[2].polys))

(***************************************************************************)
(* C23 (as stated): with rolloff enabled, the multiplier of a cell that is *)
(* neither blocked nor covered by a COST zone is the arithmetic mean of    *)
(* the factors of all COST zones of multiplier > 1 within rolloffDistanceM *)
(* of the cell centre, the zones at that distance exactly included with    *)
(* factor 1, applied only if the mean is > 1.                              *)
(***************************************************************************)
FactorOf(p, id, i) ==
  RolloffFactor(ZoneMultiplier(p, p.zones[i]), CenterDistance2(p, id, p.zones[i].polys),
                p.rolloffDistanceM)

\* the COST zones of multiplier > 1 within rolloffDistanceM of the centre
WithinRolloff(p, id) ==
  {i \in HighCostIndices(p) :
     /\ ~CenterInside(p, id, p.zones[i].polys)
     /\ IsFinite(CenterDistance2(p, id, p.zones[i].polys))
     /\ ~RLess(RInt(p.rolloffDistanceM * p.rolloffDistanceM),
               CenterDistance2(p, id, p.zones[i].polys))}

\* those of them whose factor, as the doubles give it, exceeds 1
Contributing(p, id) == {i \in WithinRolloff(p, id) : FactorAboveOne(p, id, p.zones[i], CenterDistance2(p, id, p.zones[i].polys))}

\* zone i is at distance rolloffDistanceM exactly from the centre of cell id
AtRolloffDistance(p, id, i) ==
  CenterDistance2(p, id, p.zones[i].polys) = RInt(p.rolloffDistanceM * p.rolloffDistanceM)

RECURSIVE FactorSum(_, _, _)
FactorSum(p, id, I) ==
  IF I = {} THEN RZero
  ELSE LET i == CHOOSE j \in I : TRUE
       IN  RAdd(FactorOf(p, id, i), FactorSum(p, id, I \ {i}))

MeanApplied(p, id, I) ==
  IF I = {} THEN ROne
  ELSE LET mean == RDivInt(FactorSum(p, id, I), Cardinality(I))
       IN  IF RLess(ROne, mean) THEN mean ELSE ROne

SoftCells(p, b) ==
  {id \in Ids(p) : b[id] = 0 /\ Covering(p, id, CostIndices(p.zones)) = {}}

C23_MeanOverWithin ==
  (Done /\ RolloffEnabled(params)) =>
     \A id \in SoftCells(params, env.blocked) :
        env.costMultiplier[id] = MeanApplied(params, id, WithinRolloff(params, id))

(***************************************************************************)
(* C23 (amended): the mean is taken over the zones whose computed factor   *)
(* exceeds 1 only.  A zone at distance exactly rolloffDistanceM has factor *)
(* 1 and is not counted, neither in the sum nor in the count, unless the   *)
(* doubles of its distance are rounded: then it may be counted, with a     *)
(* factor that exceeds 1 by the rounding only.                             *)
(***************************************************************************)
C23_MeanOverContributing ==
  /\ (Done /\ RolloffEnabled(params)) =>
        \A id \in SoftCells(params, env.blocked) :
           env.costMultiplier[id] = MeanApplied(params, id, Contributing(params, id))
  /\ \A id \in Ids(params) :
        \A i \in Contributing(params, id) :
           AtRolloffDistance(params, id, i) =>
              DistanceRounded(CenterX(params, ColOf(params, id)), CenterY(params, RowOf(params, id)),
                              params.zones[i].polys, params.rolloffDistanceM)

\* a cell has a zone at distance rolloffDistanceM exactly that is counted by
\* the rounding and another one nearer, and a cell has a zone at that
\* distance exactly that is not counted
C23_Witness ==
  /\ Done
  /\ RolloffEnabled(params)
  /\ \E id \in SoftCells(params, env.blocked) :
       \E i \in Contributing(params, id) :
          /\ AtRolloffDistance(params, id, i)
          /\ Contributing(params, id) # {i}
          /\ env.costMultiplier[id] # MeanApplied(params, id, Contributing(params, id) \ {i})
  /\ \E id \in SoftCells(params, env.blocked) :
       \E i \in WithinRolloff(params, id) \ Contributing(params, id) :
          AtRolloffDistance(params, id, i)

(***************************************************************************)
(* C24: a zone whose bounding box lies entirely outside the planning       *)
(* bounds contributes no work: the exact pass calls the containment test   *)
(* for no cell when it processes that zone.                                *)
(***************************************************************************)
BboxOutside(p, polys) ==
  LET bbox == mercatorBbox(polys)
  IN  /\ ~bbox.empty
      /\ \/ bbox.maxX < p.bounds.minX
         \/ bbox.minX > p.bounds.maxX
         \/ bbox.maxY < p.bounds.minY
         \/ bbox.minY > p.bounds.maxY

C24_OutsideZoneUntested ==
  (pc = "exact" /\ zi <= Len(params.zones) /\ BboxOutside(params, params.zones[zi].polys))
     => ExactTested(params, Arrays, params.zones[zi]) = {}

(***************************************************************************)
(* C25: bbox clipping is lossless.  The arrays returned equal those of a   *)
(* reference rasterizer that tests every cell of the grid against every    *)
(* zone: a blocked cell is skipped, a NO_FLY zone blocks the cells whose   *)
(* centre it contains, a COST zone multiplies them, and the rolloff pass   *)
(* accumulates over every cell.                                            *)
(***************************************************************************)
RECURSIVE ReferenceExact(_, _, _)
ReferenceExact(p, st, i) ==
  IF i > Len(p.zones) THEN st
  ELSE LET z == p.zones[i]
           in == [id \in Ids(p) |-> st.blocked[id] # 1 /\ CenterInside(p, id, z.polys)]
       IN  ReferenceExact(p,
             IF z.type = "NO_FLY"
             THEN [st EXCEPT !.blocked = [id \in Ids(p) |-> IF in[id] THEN 1 ELSE @[id]]]
             ELSE [st EXCEPT
                     !.costMultiplier =
                        [id \in Ids(p) |-> IF in[id] THEN RMul(@[id], ZoneMultiplier(p, z)) ELSE @[id]],
                     !.costZoneMask = [id \in Ids(p) |-> IF in[id] THEN 1 ELSE @[id]]],
             i + 1)

ReferenceRolloff(p, st) ==
  [st EXCEPT !.costMultiplier =
     [id \in Ids(p) |->
        IF st.blocked[id] = 1 \/ st.costZoneMask[id] = 1 THEN @[id]
        ELSE RMul(@[id], MeanApplied(p, id, Contributing(p, id)))]]

ReferenceRasterize(p) ==
  LET ex == ReferenceExact(p, InitArrays(p), 1)
  IN  IF p.avoidHighMultiplier /\ p.rolloffDistanceM > 0 THEN ReferenceRolloff(p, ex) ELSE ex

C25_ClippingLossless ==
  Done =>
     /\ env.blocked = ReferenceRasterize(params).blocked
     /\ env.costMultiplier = ReferenceRasterize(params).costMultiplier

\* a returned rasterization with rolloff in which a NO_FLY zone and a COST
\* zone of multiplier > 1 each changed cells and each left cells unscanned
ClippedAndHit(i) ==
  LET rg == ScanRange(params, mercatorBbox(params.zones[i].polys), 0)
  IN  /\ \E id \in Ids(params) : ~InScan(params, rg, id)
      /\ \E id \in Ids(params) :
           /\ CenterInside(params, id, params.zones[i].polys)
           /\ IF params.zones[i].type = "NO_FLY"
              THEN env.blocked[id] = 1
              ELSE env.blocked[id] = 0 /\ RLess(ROne, env.costMultiplier[id])

C25_Witness ==
  /\ Done
  /\ RolloffEnabled(params)
  /\ \E i \in NoFlyIndices(params.zones) : ClippedAndHit(i)
  /\ \E i \in HighCostIndices(params) : ClippedAndHit(i)

(***************************************************************************)
(* C26 (as stated): a zone whose polygon lies entirely outside the         *)
(* planning rectangle has no effect: the arrays are those of the zone list *)
(* without it, also when a span is not a multiple of cellSizeM.            *)
(***************************************************************************)
RemoveAt(zs, i) == [j \in 1..(Len(zs) - 1) |-> IF j < i THEN zs[j] ELSE zs[j + 1]]

RasterizeWithout(p, i) == Rasterize(WithZones(p, RemoveAt(p.zones, i)))

C26_OutsideRectangleInert ==
  Done =>
     \A i \in DOMAIN params.zones :
        BboxOutside(params, params.zones[i].polys) =>
           /\ env.blocked = RasterizeWithout(params, i).blocked
           /\ env.costMultiplier = RasterizeWithout(params, i).costMultiplier

(***************************************************************************)
(* C26 (amended): a zone whose polygon lies entirely outside the extent of *)
(* the grid, [minX, minX + width*cellSizeM] x [minY, minY +                *)
(* height*cellSizeM], blocks no cell, and changes no multiplier unless     *)
(* rolloff is enabled and it is a COST zone of multiplier > 1 within       *)
(* rolloffDistanceM of a cell centre.                                      *)
(***************************************************************************)
GridExtent(p) ==
  [p EXCEPT !.bounds.maxX = p.bounds.minX + Width(p) * p.cellSizeM,
            !.bounds.maxY = p.bounds.minY + Height(p) * p.cellSizeM]

ReachesByRolloff(p, i) ==
  /\ RolloffEnabled(p)
  /\ i \in HighCostIndices(p)
  /\ \E id \in Ids(p) : i \in WithinRolloff(p, id)

C26_OutsideExtentInert ==
  Done =>
     \A i \in DOMAIN params.zones :
        BboxOutside(GridExtent(params), params.zones[i].polys) =>
           /\ env.blocked = RasterizeWithout(params, i).blocked
           /\ ~ReachesByRolloff(params, i) =>
                 env.costMultiplier = RasterizeWithout(params, i).costMultiplier

\* the last column of the grid has its centres beyond maxX, and the list has
\* a zone beside the extent of the grid next to a zone that changed cells
C26_Witness ==
  /\ Done
  /\ CenterX(params, Width(params) - 1) > params.bounds.maxX
  /\ \E i \in DOMAIN params.zones :
       /\ BboxOutside(GridExtent(params), params.zones[i].polys)
       /\ ~ReachesByRolloff(params, i)
  /\ \E id \in Ids(params) : env.blocked[id] = 1 \/ env.costMultiplier[id] # ROne

(***************************************************************************)
(* C27: after any sequence of buffer slider changes, zone creations and    *)
(* zone edits, the buffered polygon of every NO_FLY zone is its shape      *)
(* buffered by the current noFlyBufferM.                                   *)
(***************************************************************************)
C27_BufferedByCurrent ==
  \A i \in DOMAIN app.zones :
     app.zones[i].type = "NO_FLY" =>
        app.zones[i].buffered = buffer(app.zones[i].shape, app.noFlyBufferM)

(***************************************************************************)
(* C28: when a call of reloadAlgorithms completes, algorithmId is '' if    *)
(* the list now held is empty (a failed fetch leaves it empty), and is the *)
(* id of an entry of the list otherwise.                                   *)
(***************************************************************************)
C28_SelectionInList ==
  [][Len(app'.fetches) < Len(app.fetches) =>
       IF app'.algorithms = <<>> THEN app'.algorithmId = ""
       ELSE app'.algorithmId \in IdsOf(app'.algorithms)]_vars

\* the files the load handler must turn down: those JSON.parse throws on and
\* those that fail a check of parseMapState
Rejected(file) == file = NotJson \/ \E i \in DOMAIN CorruptFiles : file = CorruptFiles[i]

\* C29: loading a map-state file that is not valid JSON or that fails a check
\* of parseMapState only shows an alert: zones, start, goal, planningBounds,
\* resolutionM, basemap, noFlyBufferM, the rolloff settings, costZoneTypes,
\* drawMode and runResult keep their values; a load that changes the state is
\* a load of a file parseMapState accepts.
C29_RejectedLoadInert ==
  [][app'.loaded # Null =>
       /\ Rejected(app'.loaded[1]) =>
            /\ StateOf(app') = StateOf(app)
            /\ app'.alert \in {"Invalid map state file.", "Failed to load map state."}
       /\ StateOf(app') # StateOf(app) =>
            /\ app'.loaded[1] # NotJson
            /\ parseMapState(app'.loaded[1]) # Null
            /\ app'.alert = ""]_vars

\* a rejected file was loaded into an application that holds zones, a run
\* result and a placement mode, and they are all still there
C29_Witness ==
  /\ app.loaded # Null
  /\ Rejected(app.loaded[1])
  /\ app.loaded[1] # NotJson
  /\ app.alert = "Invalid map state file."
  /\ app.runResult # Null
  /\ Len(app.zones) > 0
  /\ app.placementMode = "goal"
  /\ app.basemap = "humanitarian"

\* the request as it was sent
Sent(req) == [algorithm_id |-> req.algorithm_id, problem |-> req.problem, options |-> req.options]

\* isRunning is true exactly while the request of a run is in flight, and
\* then the Run button is disabled and the request stays the one that was
\* sent; a request that rejects leaves runResult null
RunIsExclusive ==
  /\ [](app.isRunning <=> app.inflight # Null)
  /\ [](app.isRunning => ~RunButtonEnabled(app, RasterMemo(app)))
  /\ [][/\ app.isRunning /\ app'.isRunning => Sent(app'.inflight[1]) = Sent(app.inflight[1])
        /\ app.isRunning /\ ~app'.isRunning /\ app'.alert = "Failed to run algorithm."
             => app.runResult = Null /\ app'.runResult = Null]_vars

\* C30 as it is stated: every run that set isRunning sets it back to false
\* at some time, and the rest of RunIsExclusive.  A request that never
\* settles leaves isRunning true.
C30_EveryRunEnds ==
  /\ RunIsExclusive
  /\ (app.isRunning ~> ~app.isRunning)

\* C30: a run that set isRunning sets it back to false once its request has
\* resolved or rejected; while isRunning is true the Run button is disabled
\* and no second request is started; a request that rejects leaves
\* runResult null.
C30_RunLifecycle ==
  /\ RunIsExclusive
  /\ ((app.inflight # Null /\ app.inflight[1].settled # "no") ~> ~app.isRunning)

\* the request of a run was rejected
C30_Witness ==
  /\ ~app.isRunning
  /\ app.inflight = Null
  /\ app.alert = "Failed to run algorithm."
  /\ app.runResult = Null
  /\ RunButtonEnabled(app, RasterMemo(app))

\* the rasterization, run zone by zone, returns in the state the queries start from
StepwiseAgrees == Done => Returned

====
